---- MODULE Spec2Model ----
(***************************************************************************)
(* A model of the gb-book emulator core (code/core/src): the CPU with its  *)
(* tick loop and interrupt dispatch, the bus address decoder, the          *)
(* cartridge mappers, the timer and the PPU mode state machine.            *)
(*                                                                         *)
(* The whole machine is one record, `cpu`, laid out as the Cpu object and  *)
(* everything it owns (Cpu -> Bus -> Cart, Ppu, IO, WRAM, HRAM) with the   *)
(* fields flattened.  Every function of the source is an operator from a   *)
(* machine record to a machine record (and, for a function that returns a  *)
(* value, a second operator giving the value).  A Rust panic is the field  *)
(* `fatal`: once it is set nothing changes any more.                       *)
(***************************************************************************)
EXTENDS Integers, Sequences, FiniteSets, TLC

VARIABLES
    cpu,              \* the machine: the Cpu object and all it owns
    ev,               \* what the last operation did and returned (observation only)
    ticks,            \* operations performed so far
    overflow_checks   \* the build: TRUE = integer overflow panics (cargo's dev
                      \* profile), FALSE = it wraps (cargo's release profile)

vars == <<cpu, ev, ticks, overflow_checks>>

(***************************************************************************)
(* Bounds of the model.                                                    *)
(***************************************************************************)
MaxTicks == 2
MaxBusOps == 4
MaxOps == 1

(***************************************************************************)
(* The functions nearly every path of the machine goes through (the bus    *)
(* decoder, the opcode table, the PPU update, the IF setter, tick) are     *)
(* applied through Call, which is defined after them and names each once.  *)
(* Call("f", <<x, y>>) is f(x, y), with x and y computed before f is       *)
(* entered; the loops (Timer::tick, the writes of Cpu::new) go round       *)
(* through Call as well.                                                   *)
(***************************************************************************)
RECURSIVE Call(_, _)

(***************************************************************************)
(* utils.rs: bits and bytes.                                               *)
(***************************************************************************)
RECURSIVE BitAnd(_, _)
BitAnd(x, y) ==
    IF x = 0 \/ y = 0 THEN 0
    ELSE (x % 2) * (y % 2) + 2 * BitAnd(x \div 2, y \div 2)

RECURSIVE BitOr(_, _)
BitOr(x, y) ==
    IF x = 0 THEN y
    ELSE IF y = 0 THEN x
    ELSE (IF x % 2 = 1 \/ y % 2 = 1 THEN 1 ELSE 0) + 2 * BitOr(x \div 2, y \div 2)

RECURSIVE BitXor(_, _)
BitXor(x, y) ==
    IF x = 0 THEN y
    ELSE IF y = 0 THEN x
    ELSE ((x + y) % 2) + 2 * BitXor(x \div 2, y \div 2)

get_bit(x, bit) == (x \div (2 ^ bit)) % 2 = 1

set_bit(x, bit, set) ==
    IF set THEN (IF get_bit(x, bit) THEN x ELSE x + 2 ^ bit)
    ELSE (IF get_bit(x, bit) THEN x - 2 ^ bit ELSE x)

high_byte(v) == v \div 256

low_byte(v) == v % 256

merge_bytes(high, low) == high * 256 + low

check_h_carry_u8(lhs, rhs) == (lhs % 16) + (rhs % 16) > 15

check_h_carry_u16(lhs, rhs) == (lhs % 4096) + (rhs % 4096) > 4095

check_h_borrow_u8(lhs, rhs) == (lhs % 16) < (rhs % 16)

check_c_carry_u8(lhs, rhs) == lhs + rhs > 255

(***************************************************************************)
(* Memories are sparse: a function from the addresses that hold a         *)
(* non-zero byte to that byte.  Every array of the source starts zeroed.   *)
(***************************************************************************)
Empty == [x \in {} |-> 0]

MemGet(m, a) == IF a \in DOMAIN m THEN m[a] ELSE 0

MemSet(m, a, v) ==
    CASE v # 0 -> (a :> v) @@ m
      [] a \in DOMAIN m -> [x \in DOMAIN m \ {a} |-> m[x]]
      [] OTHER -> m

Panic(s, why) == IF s.fatal # "none" THEN s ELSE [s EXCEPT !.fatal = why]

Live(s) == s.fatal = "none"

(***************************************************************************)
(* cart/rtc.rs: the real-time clock of MBC3.  The wall clock is an input:  *)
(* `clock` is the number of seconds since Rtc::new(), set by the           *)
(* environment before each operation.                                      *)
(***************************************************************************)
latch_time(s) ==
    [s EXCEPT !.rtc_seconds = s.clock % 60,
              !.rtc_minutes = (s.clock \div 60) % 60,
              !.rtc_hours = (s.clock \div 3600) % 24,
              !.rtc_days = (s.clock \div 86400) % 65536]

rtc_read_byte(s, bank) ==
    CASE bank = 8 -> s.rtc_seconds
      [] bank = 9 -> s.rtc_minutes
      [] bank = 10 -> s.rtc_hours
      [] bank = 11 -> s.rtc_days % 256
      [] bank = 12 ->
           set_bit(set_bit(set_bit(0, 0, get_bit(s.rtc_days, 9)),
                           6, s.rtc_halted),
                   7, get_bit(s.rtc_days, 10))
      [] OTHER -> -1

rtc_write_byte(s, bank, val) ==
    CASE bank = 8 -> [s EXCEPT !.rtc_seconds = val]
      [] bank = 9 -> [s EXCEPT !.rtc_minutes = val]
      [] bank = 10 -> [s EXCEPT !.rtc_hours = val]
      [] bank = 11 -> [s EXCEPT !.rtc_days = (s.rtc_days \div 256) * 256 + val]
      [] bank = 12 ->
           [s EXCEPT !.rtc_days = set_bit(set_bit(s.rtc_days, 9, get_bit(val, 0)),
                                          10, get_bit(val, 7)),
                     !.rtc_halted = get_bit(val, 6)]
      [] OTHER ->
           IF val = 0 THEN [s EXCEPT !.rtc_enabled = FALSE]
           ELSE IF val = 1 /\ ~s.rtc_enabled
                THEN latch_time([s EXCEPT !.rtc_enabled = TRUE])
                ELSE s

(***************************************************************************)
(* cart/mod.rs: the cartridge and its mappers.                             *)
(*   rom      the bytes of the image the execution has looked at so far    *)
(*            (physical offset -> byte): the image is an input, and an     *)
(*            offset outside the domain has not been decided yet           *)
(*   rom_len  the image's length; an index at or past it panics            *)
(*   rom_known  the image was given whole: rom holds all of it, every      *)
(*            other byte being 0, and nothing is left to decide            *)
(*   ram      external RAM (sparse), ram_len its length                    *)
(***************************************************************************)
ROM_STOP == 32767
EXT_RAM_START == 40960
EXT_RAM_STOP == 49151
ROM_BANK_SIZE == 16384
RAM_BANK_SIZE == 8192
CART_TYPE_ADDR == 327
RAM_SIZE_ADDR == 329

RAM_SIZES == <<0, 2, 8, 32, 128, 64>>

get_mbc(cart_type) ==
    CASE cart_type = 0 -> "NONE"
      [] cart_type \in 1..3 -> "MBC1"
      [] cart_type \in 5..6 -> "MBC2"
      [] cart_type \in 15..19 -> "MBC3"
      [] cart_type \in 25..30 -> "MBC5"
      [] OTHER -> "INV"

has_external_ram(cart_type) ==
    cart_type \in {2, 3, 8, 9, 12, 13, 16, 18, 19, 22, 23, 26, 27, 29, 30}

has_battery(cart_type) ==
    cart_type \in {3, 6, 9, 13, 15, 16, 19, 27, 30}

RomByte(s, idx) == IF idx \in DOMAIN s.rom THEN s.rom[idx] ELSE 0

init_ext_ram(s) ==
    LET cart_type == RomByte(s, CART_TYPE_ADDR)
        raw == RomByte(s, RAM_SIZE_ADDR)
        ram_size_idx == IF has_external_ram(cart_type) /\ raw = 0 THEN 1 ELSE raw
    IN  IF s.rom_len <= RAM_SIZE_ADDR THEN Panic(s, "index")
        ELSE IF s.mbc = "MBC2" THEN [s EXCEPT !.ram = Empty, !.ram_len = 512]
        ELSE IF ram_size_idx >= Len(RAM_SIZES) THEN Panic(s, "index")
        ELSE [s EXCEPT !.ram = Empty,
                       !.ram_len = RAM_SIZES[ram_size_idx + 1] * 1024]

\* `image` is the part of the ROM image known at load time, `len` its length
load_cart(s, image, len) ==
    LET s1 == [s EXCEPT !.rom = image, !.rom_len = len]
    IN  IF len <= CART_TYPE_ADDR THEN Panic(s1, "index")
        ELSE init_ext_ram([s1 EXCEPT !.mbc = get_mbc(RomByte(s1, CART_TYPE_ADDR))])

rom_index(s, addr) ==
    IF addr < ROM_BANK_SIZE THEN addr
    ELSE s.rom_bank * ROM_BANK_SIZE + (addr - ROM_BANK_SIZE)

\* a read gives the byte, or -1 when the read panics
read_cart(s, addr) ==
    IF rom_index(s, addr) >= s.rom_len THEN -1 ELSE RomByte(s, rom_index(s, addr))

read_ram_helper(s, addr) ==
    LET bank_addr == s.ram_bank * RAM_BANK_SIZE + (addr - EXT_RAM_START)
    IN  IF bank_addr >= s.ram_len THEN -1 ELSE MemGet(s.ram, bank_addr)

mbc3_read_ram(s, addr) ==
    IF s.rtc_enabled /\ s.ram_bank \in 8..12
    THEN rtc_read_byte(s, s.ram_bank)
    ELSE read_ram_helper(s, addr)

cart_read_ram(s, addr) ==
    CASE s.mbc \in {"NONE", "MBC1", "MBC2", "MBC5"} -> read_ram_helper(s, addr)
      [] s.mbc = "MBC3" -> mbc3_read_ram(s, addr)
      [] OTHER -> -2

write_ram_helper(s, addr, val) ==
    LET ram_addr == s.ram_bank * RAM_BANK_SIZE + (addr - EXT_RAM_START)
    IN  IF ~s.ram_enabled THEN s
        ELSE IF ram_addr >= s.ram_len THEN Panic(s, "index")
        ELSE [s EXCEPT !.ram = MemSet(s.ram, ram_addr, val)]

mbc3_write_ram(s, addr, val) ==
    CASE s.ram_bank \in 0..3 -> write_ram_helper(s, addr, val)
      [] s.ram_bank \in 8..12 ->
           IF s.ram_enabled THEN rtc_write_byte(s, s.ram_bank, val) ELSE s
      [] OTHER -> s

cart_write_ram(s, addr, val) ==
    CASE s.mbc = "NONE" ->
           IF addr - EXT_RAM_START >= s.ram_len THEN Panic(s, "index")
           ELSE [s EXCEPT !.ram = MemSet(s.ram, addr - EXT_RAM_START, val)]
      [] s.mbc \in {"MBC1", "MBC5"} -> write_ram_helper(s, addr, val)
      [] s.mbc = "MBC3" -> mbc3_write_ram(s, addr, val)
      [] OTHER -> Panic(s, "unimplemented")

mbc1_write_rom(s, addr, val) ==
    CASE addr \in 0..8191 -> [s EXCEPT !.ram_enabled = (val = 10)]
      [] addr \in 8192..16383 ->
           LET bank == val % 32
           IN  IF bank \in {0, 32, 64, 96}
               THEN [s EXCEPT !.rom_bank = bank + 1]
               ELSE [s EXCEPT !.rom_bank = bank]
      [] addr \in 16384..24575 ->
           LET bits == val % 4
           IN  IF s.rom_mode
               THEN [s EXCEPT !.rom_bank = BitOr(s.rom_bank, (bits * 32) % 256)]
               ELSE [s EXCEPT !.ram_bank = bits]
      [] OTHER -> [s EXCEPT !.rom_mode = (val = 0)]

mbc2_write_rom(s, addr, val) ==
    IF get_bit(addr, 8)
    THEN [s EXCEPT !.rom_bank = val % 16]
    ELSE [s EXCEPT !.ram_enabled = (val = 10)]

mbc3_write_rom(s, addr, val) ==
    CASE addr \in 0..8191 -> [s EXCEPT !.ram_enabled = (val = 10)]
      [] addr \in 8192..16383 ->
           [s EXCEPT !.rom_bank = IF val = 0 THEN 1 ELSE val]
      [] addr \in 16384..24575 -> [s EXCEPT !.ram_bank = val]
      [] OTHER -> rtc_write_byte(s, s.ram_bank, val)

mbc5_write_rom(s, addr, val) ==
    CASE addr \in 0..8191 -> [s EXCEPT !.ram_enabled = (val = 10)]
      [] addr \in 8192..12287 ->
           [s EXCEPT !.rom_bank = (s.rom_bank \div 256) * 256 + val]
      [] addr \in 12288..16383 ->
           [s EXCEPT !.rom_bank = set_bit(s.rom_bank, 9, val # 0)]
      [] addr \in 16384..24575 -> [s EXCEPT !.ram_bank = val % 16]
      [] OTHER -> Panic(s, "unreachable")

write_cart(s, addr, val) ==
    CASE s.mbc = "NONE" -> s
      [] s.mbc = "MBC1" -> mbc1_write_rom(s, addr, val)
      [] s.mbc = "MBC2" -> mbc2_write_rom(s, addr, val)
      [] s.mbc = "MBC3" -> mbc3_write_rom(s, addr, val)
      [] s.mbc = "MBC5" -> mbc5_write_rom(s, addr, val)
      [] OTHER -> Panic(s, "unimplemented")

(***************************************************************************)
(* timer.rs.  `timer` is the record [counter, div, tima, tma, tac,         *)
(* tima_cooldown]; timer_tick gives the timer after m_cycles machine       *)
(* cycles and whether the TIMER interrupt was requested.                   *)
(***************************************************************************)
DIV == 65284
TIMA == 65285
TMA == 65286
TAC == 65287
TAC_ENABLE_BIT == 3
TIMA_COOLDOWN_OVERFLOW == 4

get_tima_period_bit(tac) ==
    CASE tac % 4 = 0 -> 9
      [] tac % 4 = 1 -> 3
      [] tac % 4 = 2 -> 5
      [] OTHER -> 7

\* div is a u8: widened to u16 and masked with the period
tima_tick(t) == get_bit(t.div, get_tima_period_bit(t.tac))

\* one pass of the loop body of Timer::tick (one T-cycle)
timer_t_cycle(r) ==
    LET t == r.timer
        counter == (t.counter + 1) % 256
        overflow == t.counter + 1 > 255
        old_bit == tima_tick(t)
        t1 == [t EXCEPT !.counter = counter, !.div = (t.div + 1) % 256]
        new_bit == tima_tick(t1)
        enabled == get_bit(t.tac, TAC_ENABLE_BIT)
    IN  IF ~overflow THEN [r EXCEPT !.timer.counter = counter]
        ELSE IF t.tima_cooldown # 0
        THEN IF t.tima_cooldown - 1 = 0
             THEN [timer |-> [t1 EXCEPT !.tima_cooldown = 0, !.tima = t.tma],
                   interrupt |-> TRUE]
             ELSE [r EXCEPT !.timer = [t1 EXCEPT !.tima_cooldown = t.tima_cooldown - 1]]
        ELSE IF enabled /\ old_bit /\ ~new_bit
        THEN IF t.tima + 1 > 255
             THEN [r EXCEPT !.timer = [t1 EXCEPT !.tima = 0,
                                                 !.tima_cooldown = TIMA_COOLDOWN_OVERFLOW]]
             ELSE [r EXCEPT !.timer = [t1 EXCEPT !.tima = t.tima + 1]]
        ELSE [r EXCEPT !.timer = t1]

\* the loop of Timer::tick, n passes: the first half of them, then the rest
timer_loop(r, n) ==
    CASE n = 0 -> r
      [] n = 1 -> timer_t_cycle(r)
      [] OTHER -> Call("timer_loop", <<Call("timer_loop", <<r, n \div 2>>), n - n \div 2>>)

timer_tick(t, m_cycles) == timer_loop([timer |-> t, interrupt |-> FALSE], 4 * m_cycles)

read_timer(t, addr) ==
    CASE addr = 65284 -> t.div
      [] addr = 65285 -> t.tima
      [] addr = 65286 -> t.tma
      [] OTHER -> t.tac

\* write_timer with a store to TIMA that leaves the overflow delay running
write_timer_keep_delay(t, addr, val) ==
    CASE addr = 65284 -> [t EXCEPT !.div = 0]
      [] addr = 65285 -> [t EXCEPT !.tima = val]
      [] addr = 65286 -> [t EXCEPT !.tma = val]
      [] OTHER -> [t EXCEPT !.tac = val]

write_timer(t, addr, val) ==
    CASE addr = 65284 -> [t EXCEPT !.div = 0]
      [] addr = 65285 -> [t EXCEPT !.tima = val, !.tima_cooldown = 0]
      [] addr = 65286 -> [t EXCEPT !.tma = val]
      [] OTHER -> [t EXCEPT !.tac = val]

(***************************************************************************)
(* io.rs: the joypad, the timer's registers and plain I/O storage.         *)
(* buttons is indexed 0..7 (A, B, Select, Start, Right, Left, Up, Down).   *)
(***************************************************************************)
IO_START == 65280
IO_STOP == 65343
FACE_SELECT_BIT == 5
DPAD_SELECT_BIT == 4

\* read_joypad with the two banks exchanged
read_joypad_swapped(s) ==
    IF s.face_selected = s.dpad_selected THEN 0
    ELSE IF s.face_selected
    THEN (IF s.buttons[4] THEN 0 ELSE 1) + (IF s.buttons[5] THEN 0 ELSE 2)
         + (IF s.buttons[6] THEN 0 ELSE 4) + (IF s.buttons[7] THEN 0 ELSE 8)
    ELSE (IF s.buttons[0] THEN 0 ELSE 1) + (IF s.buttons[1] THEN 0 ELSE 2)
         + (IF s.buttons[2] THEN 0 ELSE 4) + (IF s.buttons[3] THEN 0 ELSE 8)

read_joypad(s) ==
    IF s.face_selected = s.dpad_selected THEN 0
    ELSE IF s.dpad_selected
    THEN (IF s.buttons[4] THEN 0 ELSE 1) + (IF s.buttons[5] THEN 0 ELSE 2)
         + (IF s.buttons[6] THEN 0 ELSE 4) + (IF s.buttons[7] THEN 0 ELSE 8)
    ELSE (IF s.buttons[0] THEN 0 ELSE 1) + (IF s.buttons[1] THEN 0 ELSE 2)
         + (IF s.buttons[2] THEN 0 ELSE 4) + (IF s.buttons[3] THEN 0 ELSE 8)

io_read_u8(s, addr) ==
    CASE addr \in 65284..65287 -> read_timer(s.timer, addr)
      [] addr = IO_START -> read_joypad(s)
      [] OTHER -> MemGet(s.io_ram, addr - IO_START)

io_write_u8(s, addr, val) ==
    CASE addr \in 65284..65287 -> [s EXCEPT !.timer = write_timer(s.timer, addr, val)]
      [] addr = IO_START ->
           [s EXCEPT !.face_selected = ~get_bit(val, FACE_SELECT_BIT),
                     !.dpad_selected = ~get_bit(val, DPAD_SELECT_BIT)]
      [] OTHER -> [s EXCEPT !.io_ram = MemSet(s.io_ram, addr - IO_START, val)]

set_button(s, button, pressed) == [s EXCEPT !.buttons[button] = pressed]

(***************************************************************************)
(* wram.rs: 8 KiB of work RAM and its echo.                                *)
(***************************************************************************)
WRAM_START == 49152
WRAM_STOP == 57343
ECHO_START == 57344
ECHO_STOP == 65023

wram_rel(addr) == IF addr <= WRAM_STOP THEN addr - WRAM_START ELSE addr - ECHO_START

wram_read_u8(s, addr) == MemGet(s.wram, wram_rel(addr))

wram_write_u8(s, addr, val) == [s EXCEPT !.wram = MemSet(s.wram, wram_rel(addr), val)]

(***************************************************************************)
(* ppu/modes.rs: the LCD mode state machine.  `lcd` is [mode, cycles,      *)
(* line].                                                                  *)
(***************************************************************************)
HBLANK_LEN == 204
VBLANK_LEN == 456
OAM_READ_LEN == 80
VRAM_READ_LEN == 172
VBLANK_LINE_START == 143
VBLANK_LINE_END == VBLANK_LINE_START + 10

get_idx(mode) ==
    CASE mode = "HBLANK" -> 0
      [] mode = "VBLANK" -> 1
      [] mode = "OAMReadMode" -> 2
      [] OTHER -> 3

\* Lcd::step: the LCD after `cycles`, and the LcdResults value it returns
lcd_step(lcd, cycles) ==
    LET c == lcd.cycles + cycles
    IN  CASE lcd.mode = "HBLANK" ->
               IF c >= HBLANK_LEN
               THEN IF lcd.line + 1 = VBLANK_LINE_START
                    THEN [lcd |-> [mode |-> "VBLANK", cycles |-> 0, line |-> lcd.line + 1],
                          result |-> "RenderFrame"]
                    ELSE [lcd |-> [mode |-> "OAMReadMode", cycles |-> 0,
                                   line |-> lcd.line + 1],
                          result |-> "NoAction"]
               ELSE [lcd |-> [lcd EXCEPT !.cycles = c], result |-> "NoAction"]
          [] lcd.mode = "VBLANK" ->
               IF c >= VBLANK_LEN
               THEN IF lcd.line + 1 > VBLANK_LINE_END
                    THEN [lcd |-> [mode |-> "OAMReadMode", cycles |-> 0, line |-> 0],
                          result |-> "NoAction"]
                    ELSE [lcd |-> [mode |-> "VBLANK", cycles |-> 0, line |-> lcd.line + 1],
                          result |-> "NoAction"]
               ELSE [lcd |-> [lcd EXCEPT !.cycles = c], result |-> "NoAction"]
          [] lcd.mode = "OAMReadMode" ->
               IF c >= OAM_READ_LEN
               THEN [lcd |-> [lcd EXCEPT !.cycles = 0, !.mode = "VRAMReadMode"],
                     result |-> "NoAction"]
               ELSE [lcd |-> [lcd EXCEPT !.cycles = c], result |-> "NoAction"]
          [] OTHER ->
               IF c >= VRAM_READ_LEN
               THEN [lcd |-> [lcd EXCEPT !.cycles = 0, !.mode = "HBLANK"],
                     result |-> "RenderLine"]
               ELSE [lcd |-> [lcd EXCEPT !.cycles = c], result |-> "NoAction"]

(***************************************************************************)
(* ppu/tile.rs, ppu/sprite.rs, ppu/mod.rs.                                 *)
(*   tiles     pixel (tile * 64 + row * 8 + col) -> its 2-bit colour index *)
(*   maps      the two tile maps, byte by byte                             *)
(*   oam       the 40 sprites byte by byte; a sprite keeps only the four   *)
(*             attribute flags (bits 7..4) of its fourth byte              *)
(*   lcd_regs  $FF40..$FF4B, by offset                                     *)
(* The pixels render_scanline writes to the frame buffer are not part of   *)
(* this record; what is kept of it is that the row LY must lie inside the  *)
(* buffer.                                                                 *)
(***************************************************************************)
VRAM_START == 32768
VRAM_STOP == 40959
OAM_START == 65024
OAM_STOP == 65183
LCD_REG_START == 65344
LCD_REG_STOP == 65355
TILE_SET_STOP == 38911
TILE_MAP_START == 38912
BYTES_PER_TILE == 16
SCREEN_HEIGHT == 144
LCDC == 65344
STAT == 65345
LY == 65348
LYC == 65349
STAT_LY_LYC_IRQ_BIT == 6
STAT_OAM_IRQ_BIT == 5
STAT_VBLANK_IRQ_BIT == 4
STAT_HBLANK_IRQ_BIT == 3
STAT_LY_EQ_LYC_BIT == 2

\* Tile::read_u8 of tile `t`: bit k of the byte is bit `bit` of pixels[row][k]
tile_read_u8(tiles, t, offset) ==
    LET row == offset \div 2
        bit == offset % 2
        px(k) == MemGet(tiles, t * 64 + row * 8 + k)
        b(k) == IF get_bit(px(k), bit) THEN 2 ^ k ELSE 0
    IN  b(0) + b(1) + b(2) + b(3) + b(4) + b(5) + b(6) + b(7)

\* Tile::write_u8 of tile `t`: bit i of val goes to bit `bit` of pixels[row][7 - i]
tile_write_u8(tiles, t, offset, val) ==
    LET row == offset \div 2
        bit == offset % 2
        base == t * 64 + row * 8
        keys == {base + k : k \in 0..7}
        new(x) == set_bit(MemGet(tiles, x), bit, get_bit(val, 7 - (x - base)))
    IN  [x \in ((DOMAIN tiles) \ keys) \cup {y \in keys : new(y) # 0} |->
            IF x \in keys THEN new(x) ELSE tiles[x]]

read_vram(s, addr) ==
    IF addr <= TILE_SET_STOP
    THEN tile_read_u8(s.tiles, (addr - VRAM_START) \div BYTES_PER_TILE,
                      (addr - VRAM_START) % BYTES_PER_TILE)
    ELSE MemGet(s.maps, addr - TILE_MAP_START)

write_vram(s, addr, val) ==
    IF addr <= TILE_SET_STOP
    THEN [s EXCEPT !.tiles = tile_write_u8(s.tiles, (addr - VRAM_START) \div BYTES_PER_TILE,
                                           (addr - VRAM_START) % BYTES_PER_TILE, val)]
    ELSE [s EXCEPT !.maps = MemSet(s.maps, addr - TILE_MAP_START, val)]

read_oam(s, addr) == MemGet(s.oam, addr - OAM_START)

\* Sprite::write_u8: the fourth byte keeps bits 7..4 only
write_oam(s, addr, val) ==
    [s EXCEPT !.oam = MemSet(s.oam, addr - OAM_START,
                             IF addr % 4 = 3 THEN (val \div 16) * 16 ELSE val)]

read_lcd_reg(s, addr) == MemGet(s.lcd_regs, addr - LCD_REG_START)

write_lcd_reg(s, addr, val) ==
    [s EXCEPT !.lcd_regs = MemSet(s.lcd_regs, addr - LCD_REG_START, val)]

\* Ppu::update asking for the interrupt at every change of mode
ppu_update_every_mode(s, cycles) ==
    LET stepped == lcd_step(s.lcd, cycles)
        stat == (read_lcd_reg(s, STAT) \div 4) * 4 + get_idx(stepped.lcd.mode)
    IN  [st |-> write_lcd_reg(write_lcd_reg([s EXCEPT !.lcd = stepped.lcd],
                                            LY, stepped.lcd.line), STAT, stat),
         lcd_result |-> stepped.result,
         irq |-> stepped.lcd.mode # s.lcd.mode]

\* Ppu::update with an LCD that stands still while LCDC bit 7 is clear
ppu_update_lcd_gated(s, cycles) ==
    LET stepped == IF get_bit(read_lcd_reg(s, LCDC), 7) THEN lcd_step(s.lcd, cycles)
                   ELSE [lcd |-> s.lcd, result |-> "NoAction"]
        stat == (read_lcd_reg(s, STAT) \div 4) * 4 + get_idx(stepped.lcd.mode)
    IN  [st |-> write_lcd_reg(write_lcd_reg([s EXCEPT !.lcd = stepped.lcd],
                                            LY, stepped.lcd.line), STAT, stat),
         lcd_result |-> stepped.result,
         irq |-> FALSE]

\* Ppu::update: the machine after the PPU took `cycles`, with lcd_result and irq
ppu_update(s, cycles) ==
    LET old_mode == s.lcd.mode
        old_line == s.lcd.line
        stepped == lcd_step(s.lcd, cycles)
        stat0 == read_lcd_reg(s, STAT)
        scanline == stepped.lcd.line
        lyc == read_lcd_reg(s, LYC)
        stat1 == IF old_line # scanline
                 THEN set_bit(stat0, STAT_LY_EQ_LYC_BIT, scanline = lyc)
                 ELSE stat0
        irq1 == old_line # scanline /\ scanline = lyc
                /\ get_bit(stat1, STAT_LY_LYC_IRQ_BIT)
        s1 == IF old_line # scanline
              THEN write_lcd_reg([s EXCEPT !.lcd = stepped.lcd], LY, scanline)
              ELSE [s EXCEPT !.lcd = stepped.lcd]
        mode == stepped.lcd.mode
        irq2 == old_mode # mode
                /\ CASE mode = "HBLANK" -> get_bit(stat1, STAT_HBLANK_IRQ_BIT)
                     [] mode = "VBLANK" -> get_bit(stat1, STAT_VBLANK_IRQ_BIT)
                     [] mode = "OAMReadMode" -> get_bit(stat1, STAT_OAM_IRQ_BIT)
                     [] OTHER -> FALSE
        stat2 == (stat1 \div 4) * 4 + get_idx(mode)
    IN  [st |-> write_lcd_reg(s1, STAT, stat2),
         lcd_result |-> stepped.result,
         irq |-> irq1 \/ irq2]

\* Ppu::render_scanline: row LY of the 160x144 frame buffer is overwritten
render_scanline(s) ==
    IF read_lcd_reg(s, LY) >= SCREEN_HEIGHT THEN Panic(s, "index") ELSE s

(***************************************************************************)
(* ppu/mod.rs: the row render_scanline builds.  A pixel is the four bytes  *)
(* (R, G, B, A) the buffer holds for it.  The source fills the row layer   *)
(* by layer and, within a layer, sprite by sprite; a pixel of the row      *)
(* depends on the earlier writes to the same pixel only, so each operator  *)
(* here gives one pixel `px` of the row: the value the layer leaves there  *)
(* when it found `current`.                                                *)
(***************************************************************************)
SCREEN_WIDTH == 160
SCY == 65346
SCX == 65347
BGP == 65351
OBP0 == 65352
OBP1 == 65353
WY == 65354
WX == 65355
TILE_MAP_TABLE_SIZE == 1024
TILESIZE == 8
LAYERSIZE == 32
MAP_PIXELS == 256
NUM_OAM_SPRITES == 40
BYTES_PER_SPRITE == 4
LCDC_WNDW_MAP_BIT == 6
LCDC_WNDW_ENABLED_BIT == 5
LCDC_BG_WNDW_TILE_BIT == 4
LCDC_BG_MAP_BIT == 3
LCDC_SPR_SIZE_BIT == 2
LCDC_SPR_ENABLED_BIT == 1
LCDC_BG_WNDW_ENABLED_BIT == 0
Y_OFFSET == 16
X_OFFSET == 8
BG_PRIORITY_BIT == 7
Y_FLIP_BIT == 6
X_FLIP_BIT == 5
PALETTE_BIT == 4

\* utils.rs GB_PALETTE, entry i at index i + 1
GB_PALETTE ==
    << <<255, 255, 255, 255>>, <<128, 128, 128, 255>>,
       <<64, 64, 64, 255>>, <<0, 0, 0, 255>> >>

unpack_u8(val) == [i \in 0..3 |-> (val \div (4 ^ i)) % 4]

get_bg_palette(s) == unpack_u8(read_lcd_reg(s, BGP))

get_sprite_palette(s, palette1) ==
    IF palette1 THEN unpack_u8(read_lcd_reg(s, OBP1))
    ELSE unpack_u8(read_lcd_reg(s, OBP0))

are_sprites_8x16(s) == get_bit(read_lcd_reg(s, LCDC), LCDC_SPR_SIZE_BIT)

\* Tile::get_row(row)[col] of tile `t`
tile_cell(s, t, row, col) == MemGet(s.tiles, t * 64 + row * 8 + col)

\* the tile a map byte names: as it is in tile set 1, as a signed offset
\* from tile 256 in tile set 0
adjusted_tile_index(s, tile_index) ==
    IF get_bit(read_lcd_reg(s, LCDC), LCDC_BG_WNDW_TILE_BIT) THEN tile_index
    ELSE 256 + (IF tile_index >= 128 THEN tile_index - 256 ELSE tile_index)

\* Ppu::render_bg at pixel px
render_bg(s, line, px) ==
    LET map_offset == (IF get_bit(read_lcd_reg(s, LCDC), LCDC_BG_MAP_BIT) THEN 1 ELSE 0)
                        * TILE_MAP_TABLE_SIZE
        current_y == read_lcd_reg(s, SCY) + line
        current_x == read_lcd_reg(s, SCX) + px
        y == current_y % MAP_PIXELS
        x == current_x % MAP_PIXELS
        map_num == (y \div TILESIZE) * LAYERSIZE + (x \div TILESIZE)
        tile == adjusted_tile_index(s, MemGet(s.maps, map_offset + map_num))
        cell == tile_cell(s, tile, current_y % TILESIZE, current_x % TILESIZE)
    IN  GB_PALETTE[get_bg_palette(s)[cell] + 1]

\* Point::new(x.saturating_sub(7), y) of WX, WY
get_window_coords(s) ==
    LET wx == read_lcd_reg(s, WX)
    IN  [x |-> IF wx < 7 THEN 0 ELSE wx - 7, y |-> read_lcd_reg(s, WY)]

\* Ppu::render_window at pixel px
render_window(s, line, px, current) ==
    LET map_offset == (IF get_bit(read_lcd_reg(s, LCDC), LCDC_WNDW_MAP_BIT) THEN 1 ELSE 0)
                        * TILE_MAP_TABLE_SIZE
        coords == get_window_coords(s)
        y == line - coords.y
        map_num == (y \div TILESIZE) * LAYERSIZE + (px \div TILESIZE)
        tile == adjusted_tile_index(s, MemGet(s.maps, map_offset + map_num))
        cell == tile_cell(s, tile, y % TILESIZE, px % TILESIZE)
    IN  IF coords.x > SCREEN_WIDTH \/ coords.y > line \/ px < coords.x THEN current
        ELSE GB_PALETTE[get_bg_palette(s)[cell] + 1]

\* Sprite::get_coords of OAM entry k: <<x, y>>
get_coords(s, k) ==
    <<MemGet(s.oam, BYTES_PER_SPRITE * k + 1) - X_OFFSET,
      MemGet(s.oam, BYTES_PER_SPRITE * k) - Y_OFFSET>>

get_tile_num(s, k) == MemGet(s.oam, BYTES_PER_SPRITE * k + 2)

sprite_flag(s, k, bit) == get_bit(MemGet(s.oam, BYTES_PER_SPRITE * k + 3), bit)

\* slice::sort_by is stable: an entry is placed in front of the first entry
\* already placed that the comparison puts after it
RECURSIVE sort_insert(_, _, _)
sort_insert(s, placed, k) ==
    IF placed = <<>> \/ get_coords(s, Head(placed))[1] < get_coords(s, k)[1]
    THEN <<k>> \o placed
    ELSE <<Head(placed)>> \o sort_insert(s, Tail(placed), k)

RECURSIVE sort_by(_, _, _)
sort_by(s, todo, placed) ==
    IF todo = <<>> THEN placed
    ELSE sort_by(s, Tail(todo), sort_insert(s, placed, Head(todo)))

\* Ppu::sort_sprites without the reversal
sort_sprites_unreversed(s) ==
    sort_by(s, [i \in 1..NUM_OAM_SPRITES |-> i - 1], <<>>)

\* Ppu::sort_sprites: the OAM entries (by index) in the order they are drawn
sort_sprites(s) ==
    sort_by(s, [i \in 1..NUM_OAM_SPRITES |-> NUM_OAM_SPRITES - i], <<>>)

sprite_height(s) == IF are_sprites_8x16(s) THEN 16 ELSE 8

\* the first `continue` of render_sprites is not taken for entry k
sprite_on_line(s, k, line) ==
    LET top == get_coords(s, k)[2]
    IN  ~(line < top \/ top + sprite_height(s) <= line)

\* spr_idx of render_sprites for row y of entry k
spr_idx(s, k, y) ==
    LET y_flipped == sprite_flag(s, k, Y_FLIP_BIT)
        num == get_tile_num(s, k)
    IN  IF are_sprites_8x16(s)
        THEN IF (y < 8 /\ ~y_flipped) \/ (8 < y /\ y_flipped)
             THEN BitAnd(num, 254)
             ELSE (num \div 2) * 2 + 1
        ELSE num

\* row[data_x] of render_sprites: the cell entry k has for column x of its
\* row on `line`
sprite_cell(s, k, line, x) ==
    LET y == line - get_coords(s, k)[2]
        height == sprite_height(s)
        data_y == (IF sprite_flag(s, k, Y_FLIP_BIT) THEN height - y - 1 ELSE y) % 8
        data_x == IF sprite_flag(s, k, X_FLIP_BIT) THEN 7 - x ELSE x
    IN  tile_cell(s, spr_idx(s, k, y), data_y, data_x)

\* one turn of the loop over the sprites, at pixel px
draw_sprite(s, k, line, px, current) ==
    LET x == px - get_coords(s, k)[1]
        cell == sprite_cell(s, k, line, x)
        palette == get_sprite_palette(s, sprite_flag(s, k, PALETTE_BIT))
    IN  IF ~sprite_on_line(s, k, line) \/ line >= SCREEN_HEIGHT \/ x \notin 0..7
        THEN current
        ELSE IF cell = 0 THEN current
        ELSE IF /\ sprite_flag(s, k, BG_PRIORITY_BIT)
                /\ current # GB_PALETTE[get_bg_palette(s)[0] + 1]
        THEN current
        ELSE GB_PALETTE[palette[cell] + 1]

\* Ppu::render_sprites at pixel px, over the entries `sprites` in order
RECURSIVE render_sprites(_, _, _, _, _)
render_sprites(s, sprites, line, px, current) ==
    IF sprites = <<>> THEN current
    ELSE render_sprites(s, Tail(sprites), line, px,
                        draw_sprite(s, Head(sprites), line, px, current))

\* the row Ppu::render_scanline copies into the frame buffer at row LY
scanline_row(s) ==
    LET line == read_lcd_reg(s, LY)
        lcdc == read_lcd_reg(s, LCDC)
        all == sort_sprites(s)
        sprites == SelectSeq(all, LAMBDA k : sprite_on_line(s, k, line))
        blank == <<255, 255, 255, 255>>
        bg(px) == IF get_bit(lcdc, LCDC_BG_WNDW_ENABLED_BIT)
                  THEN render_bg(s, line, px) ELSE blank
        wndw(px) == IF /\ get_bit(lcdc, LCDC_BG_WNDW_ENABLED_BIT)
                       /\ get_bit(lcdc, LCDC_WNDW_ENABLED_BIT)
                    THEN render_window(s, line, px, bg(px)) ELSE bg(px)
    IN  [px \in 0..(SCREEN_WIDTH - 1) |->
            IF get_bit(lcdc, LCDC_SPR_ENABLED_BIT)
            THEN render_sprites(s, sprites, line, px, wndw(px))
            ELSE wndw(px)]

(***************************************************************************)
(* bus.rs: the address decoder.  A read gives the byte, -1 when the read   *)
(* panics on an index out of range and -2 when it reaches unimplemented!() *)
(***************************************************************************)
OAM_DMA == 65350
HRAM_START == 65408
HRAM_STOP == 65535

bus_read_ram(s, addr) ==
    CASE addr <= ROM_STOP -> read_cart(s, addr)
      [] addr \in VRAM_START..VRAM_STOP -> read_vram(s, addr)
      [] addr \in EXT_RAM_START..EXT_RAM_STOP -> cart_read_ram(s, addr)
      [] addr \in WRAM_START..ECHO_STOP -> wram_read_u8(s, addr)
      [] addr \in OAM_START..OAM_STOP -> read_oam(s, addr)
      [] addr \in IO_START..IO_STOP -> io_read_u8(s, addr)
      [] addr \in LCD_REG_START..LCD_REG_STOP -> read_lcd_reg(s, addr)
      [] addr \in HRAM_START..HRAM_STOP -> MemGet(s.hram, addr - HRAM_START)
      [] OTHER -> 0

\* the ROM image is an input: a byte of it that is read before it was decided is 0;
\* of an image given whole (rom_known) nothing is left to decide
rom_touch(s, addrs) ==
    LET idxs == {rom_index(s, a) : a \in {x \in addrs : x <= ROM_STOP}}
        known == {i \in idxs : i < s.rom_len}
    IN  IF s.rom_known THEN s
        ELSE [s EXCEPT !.rom = [i \in DOMAIN s.rom \cup known |-> RomByte(s, i)]]

\* the 160 bytes at high * 256 are copied to OAM; a source byte whose read
\* panics stops the copy there
dma_transfer(s, high) ==
    LET src == high * 256
        bad == {i \in 0..159 : Call("bus_read_ram", <<s, src + i>>) < 0}
        stop == IF bad = {} THEN 160 ELSE CHOOSE i \in bad : \A j \in bad : i <= j
        val(i) == IF i % 4 = 3 THEN (Call("bus_read_ram", <<s, src + i>>) \div 16) * 16
                  ELSE Call("bus_read_ram", <<s, src + i>>)
        kept == {i \in DOMAIN s.oam : i >= stop}
        copied == {i \in 0..(stop - 1) : val(i) # 0}
        s1 == rom_touch(s, {src + i : i \in 0..(IF stop = 160 THEN 159 ELSE stop)})
        s2 == [s1 EXCEPT !.oam = [i \in kept \cup copied |->
                                     IF i < stop THEN val(i) ELSE s.oam[i]]]
    IN  IF stop = 160 THEN s2
        ELSE Panic(s2, IF Call("bus_read_ram", <<s, src + stop>>) = -1 THEN "index"
                       ELSE "unimplemented")

bus_write_ram(s, addr, val) ==
    CASE addr <= ROM_STOP -> write_cart(s, addr, val)
      [] addr \in VRAM_START..VRAM_STOP -> write_vram(s, addr, val)
      [] addr \in EXT_RAM_START..EXT_RAM_STOP -> cart_write_ram(s, addr, val)
      [] addr \in WRAM_START..ECHO_STOP -> wram_write_u8(s, addr, val)
      [] addr \in OAM_START..OAM_STOP -> write_oam(s, addr, val)
      [] addr \in IO_START..IO_STOP -> io_write_u8(s, addr, val)
      [] addr \in LCD_REG_START..LCD_REG_STOP ->
           IF addr = OAM_DMA
           THEN LET s1 == dma_transfer(s, val)
                IN  IF Live(s1) THEN write_lcd_reg(s1, addr, val) ELSE s1
           ELSE write_lcd_reg(s, addr, val)
      [] addr \in HRAM_START..HRAM_STOP ->
           [s EXCEPT !.hram = MemSet(s.hram, addr - HRAM_START, val)]
      [] OTHER -> s

battery_write_all(addr) == TRUE

\* the battery_write flag bus.write_ram returns
battery_write(addr) == addr \in EXT_RAM_START..EXT_RAM_STOP

(***************************************************************************)
(* cpu/mod.rs.  A function of the source that returns a value and changes  *)
(* the machine is two operators: name_val and name_st.  Once the machine   *)
(* has panicked (fatal) nothing changes any more.  last_read and           *)
(* last_write are -1 for None.                                             *)
(***************************************************************************)
IF_REG == 65295
IE_REG == 65535
IRQ_PRIORITIES == <<"Vblank", "Stat", "Timer", "Serial", "Joypad">>

get_vector(irq) ==
    CASE irq = "Vblank" -> 64
      [] irq = "Stat" -> 72
      [] irq = "Timer" -> 80
      [] irq = "Serial" -> 88
      [] OTHER -> 96

read_ram_val(s, addr) == Call("bus_read_ram", <<s, addr>>)

read_ram_st(s, addr) ==
    IF ~Live(s) THEN s
    ELSE LET s1 == [s EXCEPT !.last_read = addr]
             v == Call("bus_read_ram", <<s, addr>>)
         IN  IF v < 0 THEN Panic(s1, IF v = -1 THEN "index" ELSE "unimplemented")
             ELSE rom_touch(s1, {addr})

write_ram(s, addr, val) ==
    IF ~Live(s) THEN s
    ELSE LET s1 == Call("bus_write_ram", <<[s EXCEPT !.last_write = addr], addr, val>>)
         IN  IF Live(s1)
             THEN [s1 EXCEPT !.dirty_battery = @ \/ battery_write(addr)]
             ELSE s1

\* `+=`, `-=` and `+` on a u16: an overflow panics in a build with overflow
\* checks (the dev profile) and wraps in a build without (the release profile)
wrap16(x) == (x + 65536) % 65536

overflows(x) == overflow_checks /\ (x < 0 \/ x > 65535)

fetch_val(s) == read_ram_val(s, s.pc)

fetch_st(s) ==
    LET s1 == read_ram_st(s, s.pc)
    IN  IF ~Live(s1) THEN s1
        ELSE IF overflows(s1.pc + 1) THEN Panic(s1, "overflow")
        ELSE [s1 EXCEPT !.pc = wrap16(s1.pc + 1)]

fetch_u16_val(s) == merge_bytes(fetch_val(fetch_st(s)), fetch_val(s))

fetch_u16_st(s) == fetch_st(fetch_st(s))

pop_val(s) == merge_bytes(read_ram_val(s, wrap16(s.sp + 1)), read_ram_val(s, s.sp))

pop_st(s) ==
    IF ~Live(s) THEN s
    ELSE IF s.sp = 65534 THEN Panic(s, "assert")
    ELSE LET s1 == read_ram_st(s, s.sp)
             s2 == IF overflows(s.sp + 1) THEN Panic(s1, "overflow")
                   ELSE read_ram_st(s1, wrap16(s.sp + 1))
         IN  IF ~Live(s2) THEN s2
             ELSE IF overflows(s.sp + 2) THEN Panic(s2, "overflow")
             ELSE [s2 EXCEPT !.sp = wrap16(s.sp + 2)]

push(s, val) ==
    IF ~Live(s) THEN s
    ELSE IF overflows(s.sp - 2) THEN Panic(s, "overflow")
    ELSE LET sp == wrap16(s.sp - 2)
             s1 == write_ram([s EXCEPT !.sp = sp], sp, low_byte(val))
         IN  IF overflows(sp + 1) THEN Panic(s1, "overflow")
             ELSE write_ram(s1, wrap16(sp + 1), high_byte(val))

get_flag(s, f) ==
    CASE f = "Z" -> BitAnd(s.f, 128) # 0
      [] f = "N" -> BitAnd(s.f, 64) # 0
      [] f = "H" -> BitAnd(s.f, 32) # 0
      [] OTHER -> BitAnd(s.f, 16) # 0

set_flag(s, f, val) ==
    IF ~Live(s) THEN s
    ELSE IF val
    THEN CASE f = "Z" -> [s EXCEPT !.f = BitOr(s.f, 128)]
           [] f = "N" -> [s EXCEPT !.f = BitOr(s.f, 64)]
           [] f = "H" -> [s EXCEPT !.f = BitOr(s.f, 32)]
           [] OTHER -> [s EXCEPT !.f = BitOr(s.f, 16)]
    ELSE CASE f = "Z" -> [s EXCEPT !.f = BitAnd(s.f, 112)]
           [] f = "N" -> [s EXCEPT !.f = BitAnd(s.f, 176)]
           [] f = "H" -> [s EXCEPT !.f = BitAnd(s.f, 208)]
           [] OTHER -> [s EXCEPT !.f = BitAnd(s.f, 224)]

get_r16(s, r) ==
    CASE r = "AF" -> merge_bytes(s.a, s.f)
      [] r = "BC" -> merge_bytes(s.b, s.c)
      [] r = "DE" -> merge_bytes(s.d, s.e)
      [] r = "HL" -> merge_bytes(s.h, s.l)
      [] OTHER -> s.sp

get_r8_val(s, r) ==
    CASE r = "A" -> s.a
      [] r = "B" -> s.b
      [] r = "C" -> s.c
      [] r = "D" -> s.d
      [] r = "E" -> s.e
      [] r = "F" -> s.f
      [] r = "H" -> s.h
      [] r = "L" -> s.l
      [] OTHER -> read_ram_val(s, get_r16(s, "HL"))

get_r8_st(s, r) == IF r = "HL" THEN read_ram_st(s, get_r16(s, "HL")) ELSE s

\* set_r8 storing F whole
set_r8_raw_f(s, r, val) ==
    IF ~Live(s) THEN s
    ELSE CASE r = "A" -> [s EXCEPT !.a = val]
           [] r = "B" -> [s EXCEPT !.b = val]
           [] r = "C" -> [s EXCEPT !.c = val]
           [] r = "D" -> [s EXCEPT !.d = val]
           [] r = "E" -> [s EXCEPT !.e = val]
           [] r = "F" -> [s EXCEPT !.f = val]
           [] r = "H" -> [s EXCEPT !.h = val]
           [] r = "L" -> [s EXCEPT !.l = val]
           [] OTHER -> write_ram(s, get_r16(s, "HL"), val)

set_r8(s, r, val) ==
    IF ~Live(s) THEN s
    ELSE CASE r = "A" -> [s EXCEPT !.a = val]
           [] r = "B" -> [s EXCEPT !.b = val]
           [] r = "C" -> [s EXCEPT !.c = val]
           [] r = "D" -> [s EXCEPT !.d = val]
           [] r = "E" -> [s EXCEPT !.e = val]
           [] r = "F" -> [s EXCEPT !.f = BitAnd(val, 240)]
           [] r = "H" -> [s EXCEPT !.h = val]
           [] r = "L" -> [s EXCEPT !.l = val]
           [] OTHER -> write_ram(s, get_r16(s, "HL"), val)

set_r16(s, r, val) ==
    IF ~Live(s) THEN s
    ELSE CASE r = "AF" -> set_r8(set_r8(s, "A", high_byte(val)), "F", low_byte(val))
           [] r = "BC" -> set_r8(set_r8(s, "B", high_byte(val)), "C", low_byte(val))
           [] r = "DE" -> set_r8(set_r8(s, "D", high_byte(val)), "E", low_byte(val))
           [] r = "HL" -> set_r8(set_r8(s, "H", high_byte(val)), "L", low_byte(val))
           [] OTHER -> [s EXCEPT !.sp = val]

set_pc(s, val) == IF ~Live(s) THEN s ELSE [s EXCEPT !.pc = val]

set_irq(s, enabled) == IF ~Live(s) THEN s ELSE [s EXCEPT !.irq_enabled = enabled]

\* set_halted leaving the flag alone
set_halted_ignored(s, halted) == s

set_halted(s, halted) == IF ~Live(s) THEN s ELSE [s EXCEPT !.halted = halted]

(***************************************************************************)
(* cpu/mod.rs: arithmetic and bit helpers.                                 *)
(***************************************************************************)
\* add_a_u8 taking the half carry of the first addition only
add_a_u8_first_half(s, val, adc) ==
    IF ~Live(s) THEN s
    ELSE LET carry == IF adc /\ get_flag(s, "C") THEN 1 ELSE 0
             a == s.a
             result1 == (a + val) % 256
             result2 == (result1 + carry) % 256
             set_h == check_h_carry_u8(a, val)
             set_c == a + val > 255 \/ result1 + carry > 255
         IN  set_r8(set_flag(set_flag(set_flag(set_flag(s, "N", FALSE), "C", set_c),
                                      "H", set_h), "Z", result2 = 0), "A", result2)

add_a_u8(s, val, adc) ==
    IF ~Live(s) THEN s
    ELSE LET carry == IF adc /\ get_flag(s, "C") THEN 1 ELSE 0
             a == s.a
             result1 == (a + val) % 256
             result2 == (result1 + carry) % 256
             set_h == check_h_carry_u8(a, val) \/ check_h_carry_u8(result1, carry)
             set_c == a + val > 255 \/ result1 + carry > 255
         IN  set_r8(set_flag(set_flag(set_flag(set_flag(s, "N", FALSE), "C", set_c),
                                      "H", set_h), "Z", result2 = 0), "A", result2)

sub_a_u8(s, val, sbc) ==
    IF ~Live(s) THEN s
    ELSE LET carry == IF sbc /\ get_flag(s, "C") THEN 1 ELSE 0
             a == s.a
             result1 == (a - val + 256) % 256
             result2 == (result1 - carry + 256) % 256
             set_h == check_h_borrow_u8(a, val) \/ check_h_borrow_u8(result1, carry)
             set_c == a < val \/ result1 < carry
         IN  set_r8(set_flag(set_flag(set_flag(set_flag(s, "N", TRUE), "Z", result2 = 0),
                                      "H", set_h), "C", set_c), "A", result2)

and_a_u8(s, val) ==
    IF ~Live(s) THEN s
    ELSE LET a == BitAnd(s.a, val)
         IN  set_flag(set_flag(set_flag(set_flag(set_r8(s, "A", a), "Z", a = 0),
                                        "N", FALSE), "H", TRUE), "C", FALSE)

or_a_u8(s, val) ==
    IF ~Live(s) THEN s
    ELSE LET a == BitOr(s.a, val)
         IN  set_flag(set_flag(set_flag(set_flag(set_r8(s, "A", a), "Z", a = 0),
                                        "N", FALSE), "H", FALSE), "C", FALSE)

xor_a_u8(s, val) ==
    IF ~Live(s) THEN s
    ELSE LET a == BitXor(s.a, val)
         IN  set_flag(set_flag(set_flag(set_flag(set_r8(s, "A", a), "Z", a = 0),
                                        "N", FALSE), "H", FALSE), "C", FALSE)

cp_a_u8(s, val) ==
    IF ~Live(s) THEN s
    ELSE LET a == s.a
         IN  set_flag(set_flag(set_flag(set_flag(s, "Z", a = val), "N", TRUE),
                               "H", check_h_borrow_u8(a, val)), "C", a < val)

add_r16(s, dst_r, src_r) ==
    IF ~Live(s) THEN s
    ELSE LET dst == get_r16(s, dst_r)
             src == get_r16(s, src_r)
         IN  set_flag(set_flag(set_flag(set_r16(s, dst_r, (dst + src) % 65536),
                                        "N", FALSE),
                               "H", check_h_carry_u16(dst, src)),
                      "C", dst + src > 65535)

inc_r8(s, r) ==
    LET val == get_r8_val(s, r)
        inc == (val + 1) % 256
    IN  set_flag(set_flag(set_flag(set_r8(get_r8_st(s, r), r, inc), "Z", inc = 0),
                          "N", FALSE), "H", check_h_carry_u8(val, 1))

dec_r8(s, r) ==
    LET val == get_r8_val(s, r)
        dec == (val + 255) % 256
    IN  set_flag(set_flag(set_flag(set_r8(get_r8_st(s, r), r, dec), "Z", dec = 0),
                          "N", TRUE), "H", check_h_borrow_u8(val, 1))

inc_r16(s, r) == set_r16(s, r, (get_r16(s, r) + 1) % 65536)

dec_r16(s, r) == set_r16(s, r, (get_r16(s, r) + 65535) % 65536)

rotate_left(s, reg, carry) ==
    LET val == get_r8_val(s, reg)
        msb == get_bit(val, 7)
        rot == ((val * 2) % 256) + (val \div 128)
        new == IF carry THEN set_bit(rot, 0, get_flag(s, "C")) ELSE rot
    IN  set_flag(set_flag(set_flag(set_flag(set_r8(get_r8_st(s, reg), reg, new),
                                            "Z", new = 0), "N", FALSE), "H", FALSE),
                 "C", msb)

rotate_right(s, reg, carry) ==
    LET val == get_r8_val(s, reg)
        lsb == get_bit(val, 0)
        rot == (val \div 2) + ((val % 2) * 128)
        new == IF carry THEN set_bit(rot, 7, get_flag(s, "C")) ELSE rot
    IN  set_flag(set_flag(set_flag(set_flag(set_r8(get_r8_st(s, reg), reg, new),
                                            "Z", new = 0), "N", FALSE), "H", FALSE),
                 "C", lsb)

shift_left(s, reg) ==
    LET val == get_r8_val(s, reg)
        res == (val * 2) % 256
    IN  set_flag(set_flag(set_flag(set_flag(set_r8(get_r8_st(s, reg), reg, res),
                                            "Z", res = 0), "N", FALSE), "H", FALSE),
                 "C", get_bit(val, 7))

shift_right(s, reg, arith) ==
    LET val == get_r8_val(s, reg)
        res == IF arith THEN set_bit(val \div 2, 7, get_bit(val, 7)) ELSE val \div 2
    IN  set_flag(set_flag(set_flag(set_flag(set_r8(get_r8_st(s, reg), reg, res),
                                            "Z", res = 0), "N", FALSE), "H", FALSE),
                 "C", get_bit(val, 0))

swap_bits(s, reg) ==
    LET val == get_r8_val(s, reg)
        res == ((val % 16) * 16) + (val \div 16)
    IN  set_flag(set_flag(set_flag(set_flag(set_r8(get_r8_st(s, reg), reg, res),
                                            "Z", res = 0), "N", FALSE), "H", FALSE),
                 "C", FALSE)

test_bit(s, reg, bit) ==
    LET byte == get_r8_val(s, reg)
    IN  set_flag(set_flag(set_flag(get_r8_st(s, reg), "Z", ~get_bit(byte, bit)),
                          "N", FALSE), "H", TRUE)

write_bit(s, reg, bit, set) ==
    set_r8(get_r8_st(s, reg), reg, set_bit(get_r8_val(s, reg), bit, set))

(***************************************************************************)
(* cpu/opcodes.rs.  Each operator gives [st, cycles]: the machine after    *)
(* the instruction and the machine cycles it returns.  The opcode byte     *)
(* has been fetched already; y and z are bits 5..3 and 2..0 of the opcode. *)
(***************************************************************************)
Done(st, cycles) == [st |-> st, cycles |-> cycles]

CbRegs == <<"B", "C", "D", "E", "H", "L", "HL", "A">>

get_cb_reg(op) == CbRegs[(op % 8) + 1]

Regs16 == <<"BC", "DE", "HL", "SP">>

StackRegs16 == <<"BC", "DE", "HL", "AF">>

\* i8 as i16 as u16
sign_extend(b) == IF b >= 128 THEN b + 65280 ELSE b

\* the conditions NZ, Z, NC, C
condition(s, y) ==
    CASE y = 0 -> ~get_flag(s, "Z")
      [] y = 1 -> get_flag(s, "Z")
      [] y = 2 -> ~get_flag(s, "C")
      [] OTHER -> get_flag(s, "C")

\* ld_40 .. ld_7f without halt_76: a register loaded from itself does nothing
ld_r8_r8(s, op) ==
    LET dst == CbRegs[(((op - 64) \div 8) % 8) + 1]
        src == get_cb_reg(op)
        cycles == IF dst = "HL" \/ src = "HL" THEN 2 ELSE 1
    IN  IF dst = src THEN Done(s, 1)
        ELSE Done(set_r8(get_r8_st(s, src), dst, get_r8_val(s, src)), cycles)

\* add_80 .. cp_bf and their immediate forms: the operation on A and val
alu_a_u8(s, y, val) ==
    CASE y = 0 -> add_a_u8(s, val, FALSE)
      [] y = 1 -> add_a_u8(s, val, TRUE)
      [] y = 2 -> sub_a_u8(s, val, FALSE)
      [] y = 3 -> sub_a_u8(s, val, TRUE)
      [] y = 4 -> and_a_u8(s, val)
      [] y = 5 -> xor_a_u8(s, val)
      [] y = 6 -> or_a_u8(s, val)
      [] OTHER -> cp_a_u8(s, val)

alu_a_r8(s, op) ==
    LET src == get_cb_reg(op)
    IN  Done(alu_a_u8(get_r8_st(s, src), ((op - 128) \div 8) % 8, get_r8_val(s, src)),
             IF src = "HL" THEN 2 ELSE 1)

alu_a_imm(s, op) ==
    Done(alu_a_u8(fetch_st(s), ((op - 192) \div 8) % 8, fetch_val(s)), 2)

ld_08(s) ==
    LET addr == fetch_u16_val(s)
        s1 == fetch_u16_st(s)
        val == get_r16(s1, "SP")
        s2 == write_ram(s1, addr, low_byte(val))
    IN  Done(IF ~Live(s2) THEN s2
             ELSE IF overflows(addr + 1) THEN Panic(s2, "overflow")
             ELSE write_ram(s2, wrap16(addr + 1), high_byte(val)), 5)

jr(s, taken) ==
    LET offset == sign_extend(fetch_val(s))
        s1 == fetch_st(s)
    IN  IF ~Live(s1) THEN Done(s1, 2)
        ELSE IF taken THEN Done(set_pc(s1, (s1.pc + offset) % 65536), 3)
        ELSE Done(s1, 2)

\* daa_27 looking at the flags only, not at the digits of A
daa_27_flags_only(s) ==
    LET a0 == s.a
        a1 == IF get_flag(s, "N")
              THEN LET x == IF get_flag(s, "H") THEN (a0 - 6 + 256) % 256 ELSE a0
                   IN  IF get_flag(s, "C") THEN x - 96 ELSE x
              ELSE LET x == IF get_flag(s, "H") THEN a0 + 6 ELSE a0
                   IN  IF get_flag(s, "C") THEN x + 96 ELSE x
        bit8 == (a1 + 512) % 512 >= 256
        a == (a1 + 256) % 256
        s1 == IF bit8 THEN set_flag(s, "C", TRUE) ELSE s
    IN  Done(set_flag(set_flag(set_r8(s1, "A", a), "Z", a = 0), "H", FALSE), 1)

daa_27(s) ==
    LET a0 == s.a
        a1 == IF get_flag(s, "N")
              THEN LET x == IF get_flag(s, "H") THEN (a0 - 6 + 256) % 256 ELSE a0
                   IN  IF get_flag(s, "C") THEN x - 96 ELSE x
              ELSE LET x == IF get_flag(s, "H") \/ a0 % 16 > 9 THEN a0 + 6 ELSE a0
                   IN  IF get_flag(s, "C") \/ x > 159 THEN x + 96 ELSE x
        bit8 == (a1 + 512) % 512 >= 256
        a == (a1 + 256) % 256
        s1 == IF bit8 THEN set_flag(s, "C", TRUE) ELSE s
    IN  Done(set_flag(set_flag(set_r8(s1, "A", a), "Z", a = 0), "H", FALSE), 1)

\* opcodes $00..$3F
exec_00_3f(s, op) ==
    LET y == op \div 8
        z == op % 8
        r16 == Regs16[(op \div 16) + 1]
        r8 == CbRegs[y + 1]
    IN  CASE op = 0 -> Done(s, 1)
          [] op = 16 -> Done(s, 1)
          [] op = 8 -> ld_08(s)
          [] op = 24 -> jr(s, TRUE)
          [] op \in {32, 40, 48, 56} -> jr(s, condition(s, y - 4))
          [] op % 16 = 1 -> Done(set_r16(fetch_u16_st(s), r16, fetch_u16_val(s)), 3)
          [] op % 16 = 9 -> Done(add_r16(s, "HL", r16), 2)
          [] op \in {2, 18} -> Done(write_ram(s, get_r16(s, r16), s.a), 2)
          [] op = 34 ->
               LET addr == get_r16(s, "HL")
               IN  Done(set_r16(write_ram(s, addr, s.a), "HL", (addr + 1) % 65536), 2)
          [] op = 50 ->
               LET addr == get_r16(s, "HL")
               IN  Done(set_r16(write_ram(s, addr, s.a), "HL", (addr + 65535) % 65536), 2)
          [] op \in {10, 26} ->
               LET addr == get_r16(s, r16)
               IN  Done(set_r8(read_ram_st(s, addr), "A", read_ram_val(s, addr)), 2)
          [] op = 42 ->
               LET addr == get_r16(s, "HL")
               IN  Done(set_r16(set_r8(read_ram_st(s, addr), "A", read_ram_val(s, addr)),
                                "HL", (addr + 1) % 65536), 2)
          [] op = 58 ->
               LET addr == get_r16(s, "HL")
               IN  Done(set_r16(set_r8(read_ram_st(s, addr), "A", read_ram_val(s, addr)),
                                "HL", (addr + 65535) % 65536), 2)
          [] op % 16 = 3 -> Done(inc_r16(s, r16), 2)
          [] op % 16 = 11 -> Done(dec_r16(s, r16), 2)
          [] z = 4 -> Done(inc_r8(s, r8), IF r8 = "HL" THEN 3 ELSE 1)
          [] z = 5 -> Done(dec_r8(s, r8), IF r8 = "HL" THEN 3 ELSE 1)
          [] z = 6 -> Done(set_r8(fetch_st(s), r8, fetch_val(s)),
                           IF r8 = "HL" THEN 3 ELSE 2)
          [] op = 7 -> Done(set_flag(rotate_left(s, "A", FALSE), "Z", FALSE), 1)
          [] op = 15 -> Done(set_flag(rotate_right(s, "A", FALSE), "Z", FALSE), 1)
          [] op = 23 -> Done(set_flag(rotate_left(s, "A", TRUE), "Z", FALSE), 1)
          [] op = 31 -> Done(set_flag(rotate_right(s, "A", TRUE), "Z", FALSE), 1)
          [] op = 39 -> daa_27(s)
          [] op = 47 ->
               Done(set_flag(set_flag(set_r8(s, "A", 255 - s.a), "N", TRUE), "H", TRUE), 1)
          [] op = 55 ->
               Done(set_flag(set_flag(set_flag(s, "N", FALSE), "H", FALSE), "C", TRUE), 1)
          [] OTHER ->
               Done(set_flag(set_flag(set_flag(s, "N", FALSE), "H", FALSE),
                             "C", ~get_flag(s, "C")), 1)

execute_cb(s, op) ==
    LET cb_reg == get_cb_reg(op)
        bit == (op \div 8) % 8
    IN  Done(CASE op \in 0..7 -> rotate_left(s, cb_reg, FALSE)
               [] op \in 8..15 -> rotate_right(s, cb_reg, FALSE)
               [] op \in 16..23 -> rotate_left(s, cb_reg, TRUE)
               [] op \in 24..31 -> rotate_right(s, cb_reg, TRUE)
               [] op \in 32..39 -> shift_left(s, cb_reg)
               [] op \in 40..47 -> shift_right(s, cb_reg, TRUE)
               [] op \in 48..55 -> swap_bits(s, cb_reg)
               [] op \in 56..63 -> shift_right(s, cb_reg, FALSE)
               [] op \in 64..127 -> test_bit(s, cb_reg, bit)
               [] op \in 128..191 -> write_bit(s, cb_reg, bit, FALSE)
               [] OTHER -> write_bit(s, cb_reg, bit, TRUE), 2)

prefix_cb(s) ==
    LET s1 == fetch_st(s)
    IN  IF ~Live(s1) THEN Done(s1, 2) ELSE execute_cb(s1, fetch_val(s))

ret(s, taken, cycles) ==
    IF taken THEN Done(set_pc(pop_st(s), pop_val(s)), cycles) ELSE Done(s, 2)

jp(s, taken) ==
    LET s1 == fetch_u16_st(s)
    IN  IF ~Live(s1) THEN Done(s1, 3)
        ELSE IF taken THEN Done(set_pc(s1, fetch_u16_val(s)), 4)
        ELSE Done(s1, 3)

call(s, taken) ==
    LET s1 == fetch_u16_st(s)
    IN  IF ~Live(s1) THEN Done(s1, 3)
        ELSE IF taken THEN Done(set_pc(push(s1, s1.pc), fetch_u16_val(s)), 6)
        ELSE Done(s1, 3)

rst(s, vector) == Done(set_pc(push(s, s.pc), vector), 4)

add_e8(s) ==
    LET val == sign_extend(fetch_val(s))
        s1 == fetch_st(s)
        sp == get_r16(s1, "SP")
        set_c == low_byte(sp) + low_byte(val) > 255
        set_h == check_h_carry_u8(low_byte(sp), low_byte(val))
    IN  Done(set_flag(set_flag(set_flag(set_flag(
                 set_r16(s1, "SP", (sp + val) % 65536),
                 "Z", FALSE), "N", FALSE), "C", set_c), "H", set_h), 4)

ld_f8(s) ==
    LET offset == sign_extend(fetch_val(s))
        s1 == fetch_st(s)
        sp == get_r16(s1, "SP")
        set_c == check_c_carry_u8(low_byte(sp), low_byte(offset))
        set_h == check_h_carry_u8(low_byte(sp), low_byte(offset))
    IN  Done(set_flag(set_flag(set_flag(set_flag(
                 set_r16(s1, "HL", (offset + sp) % 65536),
                 "Z", FALSE), "N", FALSE), "C", set_c), "H", set_h), 3)

invalid_as_nop(s) == Done(s, 1)

invalid(s) == Done(Panic(s, "invalid opcode"), 0)

\* opcodes $C0..$FF
exec_c0_ff(s, op) ==
    LET y == (op - 192) \div 8
        z == op % 8
        r16 == StackRegs16[((op - 192) \div 16) + 1]
    IN  CASE op \in {192, 200, 208, 216} -> ret(s, condition(s, y), 5)
          [] op = 201 -> ret(s, TRUE, 4)
          [] op = 217 -> Done(set_irq(set_pc(pop_st(s), pop_val(s)), TRUE), 4)
          [] op \in {193, 209, 225, 241} -> Done(set_r16(pop_st(s), r16, pop_val(s)), 3)
          [] op \in {197, 213, 229, 245} -> Done(push(s, get_r16(s, r16)), 4)
          [] op \in {194, 202, 210, 218} -> jp(s, condition(s, y))
          [] op = 195 -> jp(s, TRUE)
          [] op \in {196, 204, 212, 220} -> call(s, condition(s, y))
          [] op = 205 -> call(s, TRUE)
          [] op = 203 -> prefix_cb(s)
          [] z = 6 -> alu_a_imm(s, op)
          [] z = 7 -> rst(s, y * 8)
          [] op = 224 -> Done(write_ram(fetch_st(s), 65280 + fetch_val(s), s.a), 3)
          [] op = 226 -> Done(write_ram(s, 65280 + s.c, s.a), 2)
          [] op = 234 -> Done(write_ram(fetch_u16_st(s), fetch_u16_val(s), s.a), 4)
          [] op = 240 ->
               LET s1 == fetch_st(s)
                   addr == 65280 + fetch_val(s)
               IN  IF ~Live(s1) THEN Done(s1, 3)
                   ELSE Done(set_r8(read_ram_st(s1, addr), "A", read_ram_val(s1, addr)), 3)
          [] op = 242 ->
               Done(set_r8(read_ram_st(s, 65280 + s.c), "A",
                           read_ram_val(s, 65280 + s.c)), 2)
          [] op = 250 ->
               LET s1 == fetch_u16_st(s)
                   addr == fetch_u16_val(s)
               IN  IF ~Live(s1) THEN Done(s1, 4)
                   ELSE Done(set_r8(read_ram_st(s1, addr), "A", read_ram_val(s1, addr)), 4)
          [] op = 232 -> add_e8(s)
          [] op = 248 -> ld_f8(s)
          [] op = 233 -> Done(set_pc(s, get_r16(s, "HL")), 1)
          [] op = 249 -> Done(set_r16(s, "SP", get_r16(s, "HL")), 2)
          [] op = 243 -> Done(set_irq(s, FALSE), 1)
          [] op = 251 -> Done(set_irq(s, TRUE), 1)
          [] OTHER -> invalid(s)

\* opcodes::execute: fetch the opcode and run its entry of OPCODES
execute(s) ==
    LET op == fetch_val(s)
        s1 == fetch_st(s)
    IN  IF ~Live(s1) THEN Done(s1, 0)
        ELSE CASE op < 64 -> exec_00_3f(s1, op)
               [] op = 118 -> Done(set_halted(s1, TRUE), 1)
               [] op < 128 -> ld_r8_r8(s1, op)
               [] op < 192 -> alu_a_r8(s1, op)
               [] OTHER -> exec_c0_ff(s1, op)

(***************************************************************************)
(* cpu/mod.rs: interrupts and Cpu::tick.                                   *)
(***************************************************************************)
irq_bit(irq) ==
    CASE irq = "Vblank" -> 0
      [] irq = "Stat" -> 1
      [] irq = "Timer" -> 2
      [] irq = "Serial" -> 3
      [] OTHER -> 4

enable_irq_type(s, irq, enabled) ==
    LET if_reg == read_ram_val(s, IF_REG)
    IN  write_ram(read_ram_st(s, IF_REG), IF_REG, set_bit(if_reg, irq_bit(irq), enabled))

\* check_irq giving the highest set bit
check_irq_highest(s) ==
    IF ~s.irq_enabled /\ ~s.halted THEN "None"
    ELSE LET irq_flags == BitAnd(read_ram_val(s, IF_REG), read_ram_val(s, IE_REG))
             set == {i \in 0..4 : get_bit(irq_flags, i)}
         IN  IF set = {} THEN "None"
             ELSE IRQ_PRIORITIES[(CHOOSE i \in set : \A j \in set : i >= j) + 1]

\* the interrupt check_irq returns, "None" for None
check_irq_val(s) ==
    IF ~s.irq_enabled /\ ~s.halted THEN "None"
    ELSE LET irq_flags == BitAnd(read_ram_val(s, IF_REG), read_ram_val(s, IE_REG))
             set == {i \in 0..4 : get_bit(irq_flags, i)}
         IN  IF set = {} THEN "None"
             ELSE IRQ_PRIORITIES[(CHOOSE i \in set : \A j \in set : i <= j) + 1]

check_irq_st(s) ==
    IF ~s.irq_enabled /\ ~s.halted THEN s
    ELSE read_ram_st(read_ram_st(s, IF_REG), IE_REG)

\* trigger_irq leaving the request in IF
trigger_irq_no_ack(s, irq) ==
    IF ~Live(s) THEN s
    ELSE LET s1 == [s EXCEPT !.halted = FALSE]
         IN  IF s1.irq_enabled
             THEN LET s2 == [s1 EXCEPT !.irq_enabled = FALSE]
                  IN  set_pc(push(s2, s2.pc), get_vector(irq))
             ELSE s1

\* trigger_irq waking the CPU only when the interrupt is taken
trigger_irq_ime_only(s, irq) ==
    IF ~Live(s) THEN s
    ELSE IF s.irq_enabled
    THEN LET s2 == [s EXCEPT !.irq_enabled = FALSE, !.halted = FALSE]
         IN  Call("enable_irq_type", <<set_pc(push(s2, s2.pc), get_vector(irq)), irq, FALSE>>)
    ELSE s

trigger_irq(s, irq) ==
    IF ~Live(s) THEN s
    ELSE LET s1 == [s EXCEPT !.halted = FALSE]
         IN  IF s1.irq_enabled
             THEN LET s2 == [s1 EXCEPT !.irq_enabled = FALSE]
                  IN  Call("enable_irq_type", <<set_pc(push(s2, s2.pc), get_vector(irq)), irq, FALSE>>)
             ELSE s1

\* press_button without the interrupt request
press_button_no_irq(s, button, pressed) ==
    IF ~Live(s) THEN s ELSE set_button(s, button, pressed)

press_button(s, button, pressed) ==
    IF ~Live(s) THEN s
    ELSE Call("enable_irq_type", <<set_button(s, button, pressed), "Joypad", TRUE>>)

\* the RenderFrame arm of tick sets draw_time
draw_time_any(lcd_result) == lcd_result # "NoAction"

draw_time_of(lcd_result) == lcd_result = "RenderFrame"

\* Cpu::tick with the interrupt serviced before the PPU and the timer run
tick_irq_first(s) ==
    LET s0 == [s EXCEPT !.last_read = -1, !.last_write = -1]
        ex == IF s0.halted THEN Done(s0, 1) ELSE Call("execute", <<s0>>)
        cycles == ex.cycles
        irq == check_irq_val(ex.st)
        s1 == IF irq # "None" THEN trigger_irq(check_irq_st(ex.st), irq)
              ELSE check_irq_st(ex.st)
        ppu_result == Call("ppu_update", <<s1, cycles>>)
        s2 == IF ppu_result.irq THEN Call("enable_irq_type", <<ppu_result.st, "Stat", TRUE>>)
              ELSE ppu_result.st
        s3 == CASE ppu_result.lcd_result = "RenderFrame" ->
                     Call("enable_irq_type", <<render_scanline(s2), "Vblank", TRUE>>)
                [] ppu_result.lcd_result = "RenderLine" -> render_scanline(s2)
                [] OTHER -> s2
        timer_result == timer_tick(s3.timer, cycles)
        s4 == IF ~Live(s3) THEN s3 ELSE [s3 EXCEPT !.timer = timer_result.timer]
        s5 == IF timer_result.interrupt THEN Call("enable_irq_type", <<s4, "Timer", TRUE>>) ELSE s4
    IN  [st |-> s5, draw_time |-> draw_time_of(ppu_result.lcd_result),
         cycles |-> cycles, after_op |-> ex.st,
         lcd_result |-> ppu_result.lcd_result, ppu_irq |-> ppu_result.irq,
         timer_irq |-> Live(s3) /\ timer_result.interrupt,
         at_check |-> s5, irq |-> irq, rendered |-> -1]

\* Cpu::tick.  st is the machine when tick returns (or panics), draw_time the
\* value it returns; the other fields are what the steps of tick computed:
\* after_op the machine when the instruction (or the idle cycle) is done,
\* at_check the machine handed to check_irq, irq what check_irq returned,
\* rendered the row render_scanline drew (-1 when it was not called).
tick(s) ==
    LET s0 == [s EXCEPT !.last_read = -1, !.last_write = -1]
        ex == IF s0.halted THEN Done(s0, 1) ELSE Call("execute", <<s0>>)
        cycles == ex.cycles
        ppu_result == Call("ppu_update", <<ex.st, cycles>>)
        s2 == IF ppu_result.irq THEN Call("enable_irq_type", <<ppu_result.st, "Stat", TRUE>>)
              ELSE ppu_result.st
        s3 == CASE ppu_result.lcd_result = "RenderFrame" ->
                     Call("enable_irq_type", <<render_scanline(s2), "Vblank", TRUE>>)
                [] ppu_result.lcd_result = "RenderLine" -> render_scanline(s2)
                [] OTHER -> s2
        timer_result == timer_tick(s3.timer, cycles)
        s4 == IF ~Live(s3) THEN s3 ELSE [s3 EXCEPT !.timer = timer_result.timer]
        s5 == IF timer_result.interrupt THEN Call("enable_irq_type", <<s4, "Timer", TRUE>>) ELSE s4
        irq == check_irq_val(s5)
        s6 == check_irq_st(s5)
        s7 == IF irq # "None" THEN trigger_irq(s6, irq) ELSE s6
    IN  IF ~Live(ex.st)
        THEN [st |-> ex.st, draw_time |-> FALSE, cycles |-> 0, after_op |-> ex.st,
              lcd_result |-> "NoAction", ppu_irq |-> FALSE, timer_irq |-> FALSE,
              at_check |-> ex.st, irq |-> "None", rendered |-> -1]
        ELSE [st |-> s7, draw_time |-> draw_time_of(ppu_result.lcd_result),
              cycles |-> cycles, after_op |-> ex.st,
              lcd_result |-> ppu_result.lcd_result, ppu_irq |-> ppu_result.irq,
              timer_irq |-> Live(s3) /\ timer_result.interrupt,
              at_check |-> s5, irq |-> IF Live(s5) THEN irq ELSE "None",
              rendered |-> IF ppu_result.lcd_result # "NoAction" /\ Live(s3)
                           THEN read_lcd_reg(s2, LY) ELSE -1]

\* Lcd::new and Timer::new
LcdNew == [mode |-> "HBLANK", cycles |-> 0, line |-> 0]

TimerNew == [counter |-> 0, div |-> 0, tima |-> 0, tma |-> 0, tac |-> 0, tima_cooldown |-> 0]

\* Cpu::new
NewWrites ==
    << <<65296, 128>>, <<65297, 191>>, <<65298, 243>>, <<65300, 191>>, <<65302, 63>>,
       <<65305, 191>>, <<65306, 127>>, <<65307, 255>>, <<65308, 159>>, <<65310, 191>>,
       <<65312, 255>>, <<65315, 191>>, <<65316, 119>>, <<65317, 243>>, <<65318, 241>>,
       <<65344, 145>>, <<65351, 252>>, <<65352, 255>>, <<65353, 255>> >>

\* the writes in order: the first half of them, then the rest
write_all(s, writes) ==
    LET n == Len(writes)
    IN  CASE n = 0 -> s
          [] n = 1 -> Call("write_ram", <<s, writes[1][1], writes[1][2]>>)
          [] OTHER -> Call("write_all", <<Call("write_all", <<s, SubSeq(writes, 1, n \div 2)>>),
                                          SubSeq(writes, n \div 2 + 1, n)>>)

New ==
    write_all(
      [pc |-> 256, sp |-> 65534, a |-> 1, b |-> 0, c |-> 19, d |-> 0, e |-> 216,
       f |-> 176, h |-> 1, l |-> 77, irq_enabled |-> FALSE, halted |-> FALSE,
       last_read |-> -1, last_write |-> -1, dirty_battery |-> FALSE,
       rom |-> Empty, rom_len |-> 0, rom_known |-> FALSE, ram |-> Empty, ram_len |-> 0,
       rom_bank |-> 1, ram_bank |-> 0, mbc |-> "NONE", rom_mode |-> TRUE,
       ram_enabled |-> FALSE, rtc_seconds |-> 0, rtc_minutes |-> 0, rtc_hours |-> 0,
       rtc_days |-> 0, rtc_enabled |-> FALSE, rtc_halted |-> FALSE, clock |-> 0,
       tiles |-> Empty, maps |-> Empty, oam |-> Empty, lcd_regs |-> Empty,
       lcd |-> LcdNew,
       buttons |-> [i \in 0..7 |-> FALSE], face_selected |-> FALSE,
       dpad_selected |-> FALSE, io_ram |-> Empty,
       timer |-> TimerNew,
       wram |-> Empty, hram |-> Empty, fatal |-> "none"],
      NewWrites)

\* Cpu::load_rom
load_rom(s, image, len) == load_cart(s, image, len)

\* Cpu::is_battery_dirty
is_battery_dirty(s) == s.dirty_battery

\* Cpu::clean_battery
clean_battery(s) == IF ~Live(s) THEN s ELSE [s EXCEPT !.dirty_battery = FALSE]

\* Cpu::get_battery_data: the external RAM, as its non-zero bytes and its length
get_battery_data(s) == [bytes |-> s.ram, len |-> s.ram_len]

\* Cpu::set_battery_data: copy_from_slice panics when the two lengths differ
set_battery_data(s, data) ==
    IF ~Live(s) THEN s
    ELSE IF data.len # s.ram_len THEN Panic(s, "length")
    ELSE [s EXCEPT !.ram = data.bytes]

(***************************************************************************)
(* The environment.  The ROM image is an input: a byte of it is decided    *)
(* when the CPU first fetches it, from the instruction the environment     *)
(* put there.  `ev` records what the last operation did and `ticks`        *)
(* counts the operations.  Three fields of `ev` follow the cartridge as    *)
(* its documentation describes it: latch (the last byte written to         *)
(* $0000-$1FFF was $0A), kept (the last byte written to $A000 while latch) *)
(* and plain (no write to $4000-$7FFF has selected a bank or a mode); w23,  *)
(* w2, w3 and w45 are the last bytes written to $2000-$3FFF, $2000-$2FFF,  *)
(* $3000-$3FFF and $4000-$5FFF (-1: none yet).                             *)
(* joy is the last byte written to $FF00 (-1: none yet).                   *)
(* Three more count time: frames (the ticks that returned true so far),    *)
(* since_frame (the T-cycles, 4 per M-cycle returned, of the ticks since   *)
(* the last of them) and frame_len (the T-cycles between the last two).    *)
(***************************************************************************)
\* the instruction bytes the image holds at PC, where it is not yet decided
Decide(s, instr) ==
    LET at(i) == s.pc + i - 1
        open == {i \in 1..Len(instr) : /\ ~s.rom_known
                                       /\ at(i) <= ROM_STOP
                                       /\ rom_index(s, at(i)) < s.rom_len
                                       /\ rom_index(s, at(i)) \notin DOMAIN s.rom}
        opcode == IF 1 \in open THEN instr[1] ELSE Call("bus_read_ram", <<s, s.pc>>)
        todo == IF opcode = instr[1] THEN open ELSE {}
        new == {rom_index(s, at(i)) : i \in todo}
    IN  IF todo = {} THEN s
        ELSE [s EXCEPT !.rom = [x \in DOMAIN s.rom \cup new |->
                                   IF x \in DOMAIN s.rom THEN s.rom[x]
                                   ELSE instr[CHOOSE i \in todo : rom_index(s, at(i)) = x]]]

\* what one call of tick did, as seen from outside and at its check_irq step
Observe(s, r) ==
    [kind |-> "tick",
     addr |-> IF s.halted THEN -1 ELSE s.pc,
     val |-> IF s.halted THEN -1 ELSE fetch_val(s),
     cycles |-> r.cycles,
     lcd_result |-> r.lcd_result,
     rendered |-> r.rendered,
     ppu_irq |-> r.ppu_irq,
     timer_irq |-> r.timer_irq,
     irq |-> r.irq,
     check_if |-> read_ram_val(r.at_check, IF_REG),
     check_ie |-> read_ram_val(r.at_check, IE_REG),
     check_ime |-> r.at_check.irq_enabled,
     check_halted |-> r.at_check.halted,
     check_pc |-> r.at_check.pc,
     check_sp |-> r.at_check.sp,
     start_sp |-> s.sp,
     start_a |-> s.a,
     start_c |-> get_flag(s, "C"),
     check_lcd |-> r.at_check.lcd,
     check_timer |-> r.at_check.timer,
     op_timer |-> r.after_op.timer,
     op_if |-> read_ram_val(r.after_op, IF_REG),
     op_stat |-> read_lcd_reg(r.after_op, STAT),
     op_lyc |-> read_lcd_reg(r.after_op, LYC),
     after_wake |-> /\ ev.kind = "tick" /\ ev.returned /\ ev.check_halted
                    /\ ~ev.check_ime /\ ev.irq # "None",
     draw_time |-> r.draw_time,
     returned |-> Live(r.st),
     latch |-> ev.latch, kept |-> ev.kept, plain |-> ev.plain,
     w23 |-> ev.w23, w2 |-> ev.w2, w3 |-> ev.w3, w45 |-> ev.w45,
     data |-> ev.data, joy |-> ev.joy, row |-> <<>>,
     frames |-> IF r.draw_time THEN ev.frames + 1 ELSE ev.frames,
     since_frame |-> IF r.draw_time THEN 0 ELSE ev.since_frame + 4 * r.cycles,
     frame_len |-> IF r.draw_time THEN ev.since_frame + 4 * r.cycles ELSE ev.frame_len]

NoEvent ==
    [kind |-> "init", addr |-> -1, val |-> -1, cycles |-> 0, lcd_result |-> "NoAction",
     rendered |-> -1, ppu_irq |-> FALSE, timer_irq |-> FALSE, irq |-> "None",
     check_if |-> 0, check_ie |-> 0, check_ime |-> FALSE, check_halted |-> FALSE,
     check_pc |-> 0, check_sp |-> 0, start_sp |-> 0, start_a |-> 0, start_c |-> FALSE,
     check_lcd |-> LcdNew, check_timer |-> TimerNew,
     op_timer |-> TimerNew, op_if |-> 0, op_stat |-> 0, op_lyc |-> 0, after_wake |-> FALSE, draw_time |-> FALSE,
     returned |-> TRUE, latch |-> FALSE, kept |-> 0, plain |-> TRUE,
     w23 |-> -1, w2 |-> -1, w3 |-> -1, w45 |-> -1,
     data |-> [bytes |-> Empty, len |-> 0], joy |-> -1, row |-> <<>>, frames |-> 0,
     since_frame |-> 0, frame_len |-> 0]

\* one call of Cpu::tick on machine s with `instr` as the instruction the image
\* holds at PC: the machine it leaves and what it did
Step(s, instr) ==
    LET s1 == IF s.halted THEN s ELSE Decide(s, instr)
        r == Call("tick", <<s1>>)
    IN  [st |-> r.st, ev |-> Observe(s1, r)]

Call(f, a) ==
    CASE f = "bus_read_ram" -> bus_read_ram(a[1], a[2])
      [] f = "bus_write_ram" -> bus_write_ram(a[1], a[2], a[3])
      [] f = "write_ram" -> write_ram(a[1], a[2], a[3])
      [] f = "write_all" -> write_all(a[1], a[2])
      [] f = "timer_loop" -> timer_loop(a[1], a[2])
      [] f = "read_ram_st" -> read_ram_st(a[1], a[2])
      [] f = "ppu_update" -> ppu_update(a[1], a[2])
      [] f = "enable_irq_type" -> enable_irq_type(a[1], a[2], a[3])
      [] f = "execute" -> execute(a[1])
      [] f = "tick" -> tick(a[1])
      [] f = "Step" -> Step(a[1], a[2])
      [] f = "press_button" -> press_button(a[1], a[2], a[3])
      [] f = "scanline_row" -> scanline_row(a[1])

DoTick(instr) ==
    \E r \in {Call("Step", <<cpu, instr>>)} :
        /\ cpu' = r.st
        /\ ev' = r.ev
        /\ ticks' = ticks + 1
        /\ UNCHANGED overflow_checks

\* a cartridge image of `len` bytes whose header names `cart_type` and `ram_size`
Boot(cart_type, ram_size, len) ==
    load_rom(New, (CART_TYPE_ADDR :> cart_type) @@ (RAM_SIZE_ADDR :> ram_size), len)

(***************************************************************************)
(* Spec: the CPU over the whole opcode table.  The machine starts after a  *)
(* program prefix (JP, LD SP, loads and pushes) left PC, SP, A, F and the  *)
(* top of the stack somewhere, in a build with or without overflow checks, *)
(* and runs MaxOps instructions, each any entry of OPCODES or of the CB    *)
(* table with operands from Operands8 / Operands16.                        *)
(***************************************************************************)
\* the bytes an instruction fetches: the opcode and its operands
op_len(op) ==
    CASE op \in {1, 17, 33, 49, 8, 194, 202, 210, 218, 195, 196, 204, 212, 220,
                 205, 234, 250} -> 3
      [] op < 64 /\ op % 8 = 6 -> 2
      [] op \in {24, 32, 40, 48, 56, 203, 224, 240, 232, 248} -> 2
      [] op >= 192 /\ op % 8 = 6 -> 2
      [] OTHER -> 1

Operands8 == {0, 15, 254}

Operands16 == {<<255, 255>>, <<16, 192>>, <<1, 0>>}

AllInstrs ==
    {<<op>> : op \in {o \in 0..255 : op_len(o) = 1}}
    \cup {<<op, b>> : op \in {o \in 0..255 : op_len(o) = 2 /\ o # 203}, b \in Operands8}
    \cup {<<203, cb>> : cb \in 0..255}
    \cup {<<op, w[1], w[2]>> : op \in {o \in 0..255 : op_len(o) = 3}, w \in Operands16}

\* two bytes a PUSH left on top of the stack at $C100
StackData == (256 :> 255) @@ (257 :> 90)

InitRegs ==
    {[pc |-> 256, sp |-> 65534], [pc |-> 65535, sp |-> 65534],
     [pc |-> 256, sp |-> 65535], [pc |-> 256, sp |-> 1], [pc |-> 256, sp |-> 0],
     [pc |-> 256, sp |-> 49408], [pc |-> 49152, sp |-> 49408],
     [pc |-> 256, sp |-> 40960]}

InitAF == {[a |-> 1, f |-> 176], [a |-> 154, f |-> 0], [a |-> 255, f |-> 80],
           [a |-> 0, f |-> 224]}

InitCpus ==
    {[Boot(0, 0, 32768) EXCEPT !.pc = r.pc, !.sp = r.sp, !.a = af.a, !.f = af.f,
                               !.wram = StackData] :
        r \in InitRegs, af \in InitAF}

Init ==
    /\ overflow_checks \in BOOLEAN
    /\ cpu \in InitCpus
    /\ ev = NoEvent
    /\ ticks = 0

Tick ==
    /\ Live(cpu)
    /\ ticks < MaxOps
    /\ \E instr \in AllInstrs : DoTick(instr)

Next == Tick

Spec == Init /\ [][Next]_vars

(***************************************************************************)
(* SpecIrq: Cpu::tick around its interrupt check.  The machine starts      *)
(* where a program and the passing of time can bring it: any IF, IE and    *)
(* IME (stores to $FF0F and $FFFF, EI), a stack pointer anywhere (LD SP),  *)
(* the LCD at the end of a mode, the timer about to reload, the CPU        *)
(* halted with nothing pending; then MaxTicks instructions of IrqInstrs.   *)
(***************************************************************************)
IrqInstrs == {<<0>>, <<118>>, <<243>>, <<251>>, <<197>>, <<234, 15, 255>>, <<234, 64, 255>>}

IrqBase ==
    [pc |-> 256, sp |-> 65534, ime |-> FALSE, halted |-> FALSE, if_reg |-> 0,
     ie_reg |-> 0, lcd |-> LcdNew, stat |-> 0, lyc |-> 0, timer |-> TimerNew]

\* the machine a case describes
Place(o) ==
    [Boot(0, 0, 32768) EXCEPT
        !.pc = o.pc, !.sp = o.sp, !.irq_enabled = o.ime, !.halted = o.halted,
        !.io_ram = MemSet(@, IF_REG - IO_START, o.if_reg),
        !.hram = MemSet(@, IE_REG - HRAM_START, o.ie_reg),
        !.lcd = o.lcd,
        !.lcd_regs = MemSet(MemSet(MemSet(@, LY - LCD_REG_START, o.lcd.line),
                                   STAT - LCD_REG_START, o.stat + get_idx(o.lcd.mode)),
                            LYC - LCD_REG_START, o.lyc),
        !.timer = o.timer]

IFVals == (0..31) \cup {224, 255}

IEVals == {0, 10, 21, 31, 224, 248, 255}

PriorityCases ==
    {[IrqBase EXCEPT !.if_reg = f, !.ie_reg = e, !.ime = m] :
        f \in IFVals, e \in IEVals, m \in BOOLEAN}

SPVals == {65534, 65297, 65296, 49154, 1, 0, 65535, 40962, 65347}

StackCases ==
    {[IrqBase EXCEPT !.sp = sp, !.pc = pc, !.if_reg = f, !.ie_reg = 31, !.ime = TRUE] :
        sp \in SPVals, pc \in {256, 4660}, f \in {1, 4, 31}}

LcdVals ==
    {[mode |-> "HBLANK", cycles |-> 203, line |-> 142],
     [mode |-> "HBLANK", cycles |-> 203, line |-> 7],
     [mode |-> "HBLANK", cycles |-> 100, line |-> 142],
     [mode |-> "VRAMReadMode", cycles |-> 171, line |-> 7],
     [mode |-> "OAMReadMode", cycles |-> 79, line |-> 7],
     [mode |-> "VBLANK", cycles |-> 455, line |-> 143],
     [mode |-> "VBLANK", cycles |-> 455, line |-> 153]}

LcdCases ==
    {[IrqBase EXCEPT !.lcd = l, !.stat = st, !.lyc = y, !.ie_reg = e, !.ime = m,
                     !.halted = h] :
        l \in LcdVals, st \in {0, 8, 16, 32, 64}, y \in {0, 8, 143}, e \in {0, 3},
        m \in BOOLEAN, h \in BOOLEAN}

TimerVals ==
    {[counter |-> 255, div |-> 3, tima |-> 0, tma |-> 128, tac |-> 11, tima_cooldown |-> 1],
     [counter |-> 255, div |-> 2, tima |-> 0, tma |-> 128, tac |-> 11, tima_cooldown |-> 2],
     [counter |-> 250, div |-> 3, tima |-> 0, tma |-> 128, tac |-> 11, tima_cooldown |-> 1],
     [counter |-> 255, div |-> 15, tima |-> 255, tma |-> 7, tac |-> 11, tima_cooldown |-> 0],
     [counter |-> 255, div |-> 15, tima |-> 7, tma |-> 0, tac |-> 5, tima_cooldown |-> 0],
     [counter |-> 255, div |-> 15, tima |-> 7, tma |-> 0, tac |-> 9, tima_cooldown |-> 0],
     [counter |-> 255, div |-> 15, tima |-> 255, tma |-> 7, tac |-> 9, tima_cooldown |-> 0]}

TimerCases ==
    {[IrqBase EXCEPT !.timer = tm, !.ie_reg = e, !.ime = m, !.halted = h] :
        tm \in TimerVals, e \in {0, 4, 31}, m \in BOOLEAN, h \in BOOLEAN}

InitIrq ==
    /\ overflow_checks \in BOOLEAN
    /\ cpu \in {Place(o) : o \in PriorityCases \cup StackCases \cup LcdCases \cup TimerCases}
    /\ ev = NoEvent
    /\ ticks = 0

TickIrq ==
    /\ Live(cpu)
    /\ ticks < MaxTicks
    /\ \E instr \in IrqInstrs : DoTick(instr)

NextIrq == TickIrq

SpecIrq == InitIrq /\ [][NextIrq]_vars

(***************************************************************************)
(* SpecCart: reads and writes of the cartridge through Cpu::write_ram and  *)
(* Cpu::read_ram, on images of every mapper.  Bank b of an image begins    *)
(* with the byte b.                                                        *)
(***************************************************************************)
CartTypes == {0, 1, 3, 5, 6, 19, 27, 252}

NumBanks == 128

Image(cart_type) ==
    [x \in {CART_TYPE_ADDR, RAM_SIZE_ADDR} \cup {b * ROM_BANK_SIZE : b \in 1..(NumBanks - 1)} |->
        CASE x = CART_TYPE_ADDR -> cart_type
          [] x = RAM_SIZE_ADDR -> 2
          [] OTHER -> x \div ROM_BANK_SIZE]

CartWrites ==
    {<<0, 10>>, <<0, 0>>, <<8192, 0>>, <<8192, 32>>, <<8192, 64>>, <<8192, 96>>,
     <<8192, 5>>, <<8192, 37>>, <<12288, 1>>, <<16384, 1>>, <<16384, 8>>, <<24576, 1>>, <<40960, 85>>,
     <<40960, 170>>}

CartReads == {16384, 40960}

InitCart ==
    /\ overflow_checks \in BOOLEAN
    /\ cpu \in {load_rom(New, Image(t), NumBanks * ROM_BANK_SIZE) : t \in CartTypes}
    /\ ev = NoEvent
    /\ ticks = 0

BusWrite ==
    /\ Live(cpu)
    /\ ticks < MaxBusOps
    /\ \E w \in CartWrites :
         /\ cpu' = Call("write_ram", <<cpu, w[1], w[2]>>)
         /\ ev' = [NoEvent EXCEPT
                     !.kind = "write", !.addr = w[1], !.val = w[2],
                     !.latch = IF w[1] < 8192 THEN w[2] = 10 ELSE ev.latch,
                     !.kept = IF w[1] = EXT_RAM_START /\ ev.latch THEN w[2] ELSE ev.kept,
                     !.plain = ev.plain /\ w[1] \notin 16384..32767,
                     !.w23 = IF w[1] \in 8192..16383 THEN w[2] ELSE ev.w23,
                     !.w2 = IF w[1] \in 8192..12287 THEN w[2] ELSE ev.w2,
                     !.w3 = IF w[1] \in 12288..16383 THEN w[2] ELSE ev.w3,
                     !.w45 = IF w[1] \in 16384..24575 THEN w[2] ELSE ev.w45]
    /\ ticks' = ticks + 1
    /\ UNCHANGED overflow_checks

BusRead ==
    /\ Live(cpu)
    /\ ticks < MaxBusOps
    /\ \E addr \in CartReads :
         /\ cpu' = Call("read_ram_st", <<cpu, addr>>)
         /\ ev' = [NoEvent EXCEPT !.kind = "read", !.addr = addr,
                                  !.val = Call("bus_read_ram", <<cpu, addr>>),
                                  !.latch = ev.latch, !.kept = ev.kept,
                                  !.plain = ev.plain,
                                  !.w23 = ev.w23, !.w2 = ev.w2, !.w3 = ev.w3,
                                  !.w45 = ev.w45]
    /\ ticks' = ticks + 1
    /\ UNCHANGED overflow_checks

NextCart == BusWrite \/ BusRead

SpecCart == InitCart /\ [][NextCart]_vars

(***************************************************************************)
(* SpecBus: what a host and a program do to memory outside the mapper      *)
(* registers.  The cartridge is ROM only or MBC1 + RAM + BATTERY with 8    *)
(* KiB of RAM; the operations are CPU writes (tile data, a tile map, work  *)
(* RAM, OAM, external RAM, the OAM DMA register), CPU reads, ticks of an   *)
(* instruction from HostInstrs, clean_battery and set_battery_data.        *)
(***************************************************************************)
MaxHostOps == 3

HostCarts == {<<0, 0>>, <<3, 2>>}

HostWrites ==
    {<<0, 10>>, <<32768, 1>>, <<32771, 255>>, <<38912, 7>>, <<40960, 85>>,
     <<49152, 18>>, <<49155, 95>>, <<65027, 255>>,
     <<65350, 128>>, <<65350, 160>>, <<65350, 192>>, <<65350, 254>>}

HostReads == {32768, 32771, 40960, 49155, 65027, 65350}

\* NOP, LD ($A000),A and LD ($FF46),A
HostInstrs == {<<0>>, <<234, 0, 160>>, <<234, 70, 255>>}

BatteryData ==
    {[bytes |-> Empty, len |-> 0], [bytes |-> (0 :> 7), len |-> 1],
     [bytes |-> Empty, len |-> 8192], [bytes |-> (0 :> 85) @@ (8191 :> 170), len |-> 8192]}

InitBus ==
    /\ overflow_checks \in BOOLEAN
    /\ cpu \in {Boot(c[1], c[2], 32768) : c \in HostCarts}
    /\ ev = NoEvent
    /\ ticks = 0

HostWrite ==
    /\ Live(cpu)
    /\ ticks < MaxHostOps
    /\ \E w \in HostWrites :
         /\ cpu' = Call("write_ram", <<cpu, w[1], w[2]>>)
         /\ ev' = [NoEvent EXCEPT !.kind = "write", !.addr = w[1], !.val = w[2]]
    /\ ticks' = ticks + 1
    /\ UNCHANGED overflow_checks

HostRead ==
    /\ Live(cpu)
    /\ ticks < MaxHostOps
    /\ \E addr \in HostReads :
         /\ cpu' = Call("read_ram_st", <<cpu, addr>>)
         /\ ev' = [NoEvent EXCEPT !.kind = "read", !.addr = addr,
                                  !.val = Call("bus_read_ram", <<cpu, addr>>)]
    /\ ticks' = ticks + 1
    /\ UNCHANGED overflow_checks

HostTick ==
    /\ Live(cpu)
    /\ ticks < MaxHostOps
    /\ \E instr \in HostInstrs : DoTick(instr)

\* ev.val: whether the flag was up when clean_battery was called
HostCleanBattery ==
    /\ Live(cpu)
    /\ ticks < MaxHostOps
    /\ cpu' = clean_battery(cpu)
    /\ ev' = [NoEvent EXCEPT !.kind = "clean_battery",
                             !.val = IF is_battery_dirty(cpu) THEN 1 ELSE 0]
    /\ ticks' = ticks + 1
    /\ UNCHANGED overflow_checks

HostSetBattery ==
    /\ Live(cpu)
    /\ ticks < MaxHostOps
    /\ \E data \in BatteryData :
         /\ cpu' = set_battery_data(cpu, data)
         /\ ev' = [NoEvent EXCEPT !.kind = "set_battery", !.data = data]
    /\ ticks' = ticks + 1
    /\ UNCHANGED overflow_checks

NextBus == HostWrite \/ HostRead \/ HostTick \/ HostCleanBattery \/ HostSetBattery

SpecBus == InitBus /\ [][NextBus]_vars

(***************************************************************************)
(* SpecFrame: a machine left to run, tick after tick, on an image given    *)
(* whole: the all-zero image of 32 KiB, and an image of zeros but for the  *)
(* loop JR -2 at $0100.                                                    *)
(***************************************************************************)
MaxFrameTicks == 40800

\* `image` as the whole ROM of a machine: every byte it does not name is 0
BootWhole(image) == [load_rom(New, image, 32768) EXCEPT !.rom_known = TRUE]

ZeroRom == BootWhole(Empty)

LoopRom == BootWhole((256 :> 24) @@ (257 :> 254))

InitFrame ==
    /\ overflow_checks \in BOOLEAN
    /\ cpu \in {ZeroRom, LoopRom}
    /\ ev = NoEvent
    /\ ticks = 0

FrameTick ==
    /\ Live(cpu)
    /\ ticks < MaxFrameTicks
    /\ DoTick(<<0>>)

NextFrame == FrameTick

SpecFrame == InitFrame /\ [][NextFrame]_vars

(***************************************************************************)
(* SpecLive: SpecFrame's machine under a host that keeps calling tick, on  *)
(* images that loop for ever: JR -2; HALT with nothing enabled; a loop     *)
(* that clears LCDC (LCD off) at every turn; and a program that enables    *)
(* the VBLANK interrupt and IME and halts, woken at every frame.  The host *)
(* loop of desktop and wasm calls tick again whenever it returns, hence    *)
(* the weak fairness on LiveTick.                                          *)
(***************************************************************************)
MaxLiveTicks == 145000

\* the images, from $0100:  JR -2;  HALT;  XOR A, LDH ($40),A, JR -5;
\* LD A,1, LDH ($FF),A, EI, HALT, JR -3
LiveImages ==
    {(256 :> 24) @@ (257 :> 254),
     (256 :> 118),
     (256 :> 175) @@ (257 :> 224) @@ (258 :> 64) @@ (259 :> 24) @@ (260 :> 251),
     (256 :> 62) @@ (257 :> 1) @@ (258 :> 224) @@ (259 :> 255) @@ (260 :> 251)
        @@ (261 :> 118) @@ (262 :> 24) @@ (263 :> 253)}

\* BootWhole(image): with the header bytes 0 as in the all-zero image, the
\* machine differs from ZeroRom in the image only
InitLive ==
    /\ overflow_checks = FALSE
    /\ cpu \in {[ZeroRom EXCEPT !.rom = image] : image \in LiveImages}
    /\ ev = NoEvent
    /\ ticks = 0

LiveTick ==
    /\ Live(cpu)
    /\ ticks < MaxLiveTicks
    /\ DoTick(<<0>>)

NextLive == LiveTick

\* the call counter advances: the step LiveTick takes, and enabled when
\* LiveTick is (tick is defined on every live machine)
TickCalled ==
    /\ Live(cpu)
    /\ ticks < MaxLiveTicks
    /\ ticks' = ticks + 1

SpecLive == InitLive /\ [][NextLive]_vars /\ WF_ticks(TickCalled)

(***************************************************************************)
(* SpecJoy: the joypad.  The machine has IE and IME set by a program       *)
(* prefix; the host presses and releases buttons, the program writes the   *)
(* selectors to $FF00 and runs NOP or HALT.  A halted CPU runs no          *)
(* instruction, so nothing is written while it is halted.                  *)
(***************************************************************************)
MaxJoyOps == 3

\* Buttons as usize: A, B, Select, Start, Right, Left, Up, Down
ButtonIds == 0..7

JoyPresses == {<<b, TRUE>> : b \in ButtonIds} \cup {<<0, FALSE>>, <<4, FALSE>>}

JoySelects == {0, 16, 32, 48, 223, 239}

JoyInstrs == {<<0>>, <<118>>}

InitJoy ==
    /\ overflow_checks = FALSE
    /\ cpu \in {[Boot(0, 0, 32768) EXCEPT !.irq_enabled = ime,
                                          !.hram = MemSet(@, IE_REG - HRAM_START, ie)] :
                  ie \in {16, 17}, ime \in BOOLEAN}
    /\ ev = NoEvent
    /\ ticks = 0

\* ev.addr: the button, ev.val: 1 for pressed
JoyPress ==
    /\ Live(cpu)
    /\ ticks < MaxJoyOps
    /\ \E p \in JoyPresses :
         /\ cpu' = Call("press_button", <<cpu, p[1], p[2]>>)
         /\ ev' = [NoEvent EXCEPT !.kind = "press", !.addr = p[1],
                                  !.val = IF p[2] THEN 1 ELSE 0, !.joy = ev.joy]
    /\ ticks' = ticks + 1
    /\ UNCHANGED overflow_checks

JoyWrite ==
    /\ Live(cpu)
    /\ ~cpu.halted
    /\ ticks < MaxJoyOps
    /\ \E v \in JoySelects :
         /\ cpu' = Call("write_ram", <<cpu, IO_START, v>>)
         /\ ev' = [NoEvent EXCEPT !.kind = "write", !.addr = IO_START, !.val = v, !.joy = v]
    /\ ticks' = ticks + 1
    /\ UNCHANGED overflow_checks

JoyTick ==
    /\ Live(cpu)
    /\ ticks < MaxJoyOps
    /\ \E instr \in JoyInstrs : DoTick(instr)

NextJoy == JoyPress \/ JoyWrite \/ JoyTick

SpecJoy == InitJoy /\ [][NextJoy]_vars

(***************************************************************************)
(* SpecAlu: the 8-bit additions and subtractions on A and DAA.  A program  *)
(* prefix left A and F anywhere, B, C, D and E holding bytes and HL        *)
(* pointing at a byte of work RAM; the program then runs MaxAluOps of      *)
(* ADD/ADC/SUB/SBC A with a register, (HL) or an immediate operand, each   *)
(* possibly followed by DAA.                                               *)
(***************************************************************************)
MaxAluOps == 1

AluBytes == {0, 1, 9, 15, 16, 21, 69, 80, 85, 127, 128, 144, 153, 240, 255}

AluFlags == {0, 16, 32, 48, 64, 80, 96, 112, 144}

AluOperands == {0, 1, 9, 15, 85, 144, 153, 255}

ArithInstrs ==
    {<<op>> : op \in 128..159} \cup {<<op, v>> : op \in {198, 206, 214, 222}, v \in AluOperands}

InitAlu ==
    /\ overflow_checks = FALSE
    /\ cpu \in {[Boot(0, 0, 32768) EXCEPT !.a = a, !.f = f, !.b = 8, !.c = 153, !.d = 16,
                                          !.e = 241, !.h = 192, !.l = 0,
                                          !.wram = (0 :> 69)] :
                  a \in AluBytes, f \in AluFlags}
    /\ ev = NoEvent
    /\ ticks = 0

AluArith ==
    /\ Live(cpu)
    /\ ticks < MaxAluOps
    /\ \E instr \in ArithInstrs : DoTick(instr)

\* DAA, once after an instruction
AluDaa ==
    /\ Live(cpu)
    /\ ev.val # 39
    /\ \E r \in {Call("Step", <<cpu, <<39>>>>)} :
         /\ cpu' = r.st
         /\ ev' = r.ev
    /\ UNCHANGED <<ticks, overflow_checks>>

NextAlu == AluArith \/ AluDaa

SpecAlu == InitAlu /\ [][NextAlu]_vars

(***************************************************************************)
(* SpecSprite: the sprite layer of one scanline.  A program prefix left    *)
(* tiles 0, 2, 3 and 4 in VRAM, three sprites in OAM (entries 0, 1 and 39) *)
(* and the palettes in BGP, OBP0 and OBP1, and 200 in A; the LCD is at the  *)
(* last cycles of its VRAM read on line 20.  The host writes OAM           *)
(* and the machine runs NOP or LD ($FF44),A: the tick that ends the VRAM   *)
(* read renders the line,                                                  *)
(* and ev.row is the row render_scanline built (<<>> when it did not run). *)
(* Nothing a tick does after the rendering writes to VRAM, OAM or the LCD  *)
(* registers, so the row is computed on the machine the tick leaves.       *)
(***************************************************************************)
MaxSpriteOps == 2

\* tile 0: columns 4..7 hold 2; tile 2: 1 on the diagonal, 2 elsewhere;
\* tile 3: 3 on the diagonal, 1 elsewhere; tile 4: columns 4..7 hold 3
SpriteTiles ==
    LET cell(x) ==
            LET t == x \div 64
                row == (x % 64) \div 8
                col == x % 8
            IN  CASE t = 0 -> IF col >= 4 THEN 2 ELSE 0
                  [] t = 2 -> IF col = row THEN 1 ELSE 2
                  [] t = 3 -> IF col = row THEN 3 ELSE 1
                  [] t = 4 -> IF col >= 4 THEN 3 ELSE 0
                  [] OTHER -> 0
    IN  [x \in {y \in 0..319 : cell(y) # 0} |-> cell(x)]

\* OAM holding the entries of sprs, each <<y, x, tile, flags>>
OamOf(sprs) ==
    LET byte(i) == sprs[i \div 4][(i % 4) + 1]
        keys == {4 * k + j : k \in DOMAIN sprs, j \in 0..3}
    IN  [i \in {x \in keys : byte(x) # 0} |-> byte(i)]

SpriteOams ==
    {OamOf((0 :> <<y0, x0, t0, f0>>) @@ (1 :> <<29, x1, 3, f1>>) @@ (39 :> <<y39, 16, 4, 0>>)) :
        y0 \in {21, 28, 29, 36}, x0 \in {16, 20}, t0 \in {2, 3}, f0 \in {0, 64, 128},
        x1 \in {12, 16}, f1 \in {0, 128}, y39 \in {0, 29}}

SpriteLcdcs == {130, 134, 151}

SpriteWrites == {<<65027, 96>>, <<65027, 16>>, <<65181, 12>>}

\* NOP and LD ($FF44),A
SpriteInstrs == {<<0>>, <<234, 68, 255>>}

InitSprite ==
    /\ overflow_checks = FALSE
    /\ cpu \in {[Place([IrqBase EXCEPT !.lcd = [mode |-> "VRAMReadMode", cycles |-> 171,
                                                 line |-> 20]])
                    EXCEPT !.a = 200, !.oam = oam, !.tiles = SpriteTiles,
                           !.lcd_regs = MemSet(MemSet(MemSet(MemSet(@,
                                LCDC - LCD_REG_START, lcdc), BGP - LCD_REG_START, 228),
                                OBP0 - LCD_REG_START, 228), OBP1 - LCD_REG_START, 27)] :
                  oam \in SpriteOams, lcdc \in SpriteLcdcs}
    /\ ev = NoEvent
    /\ ticks = 0

SpriteWrite ==
    /\ Live(cpu)
    /\ ticks < MaxSpriteOps
    /\ \E w \in SpriteWrites :
         /\ cpu' = Call("write_ram", <<cpu, w[1], w[2]>>)
         /\ ev' = [NoEvent EXCEPT !.kind = "write", !.addr = w[1], !.val = w[2]]
    /\ ticks' = ticks + 1
    /\ UNCHANGED overflow_checks

SpriteTick ==
    /\ Live(cpu)
    /\ ticks < MaxSpriteOps
    /\ \E instr \in SpriteInstrs : \E r \in {Call("Step", <<cpu, instr>>)} :
         /\ cpu' = r.st
         /\ ev' = [r.ev EXCEPT !.row = IF r.ev.rendered # -1
                                       THEN Call("scanline_row", <<r.st>>) ELSE <<>>]
    /\ ticks' = ticks + 1
    /\ UNCHANGED overflow_checks

NextSprite == SpriteWrite \/ SpriteTick

SpecSprite == InitSprite /\ [][NextSprite]_vars

(***************************************************************************)
(* SpecTimer: the timer registers.  The timer starts where time brought    *)
(* it (TimerVals); the host stores to $FF04..$FF07 through Cpu::write_ram  *)
(* and the program runs NOPs.  A write event keeps in op_timer the timer   *)
(* the store found.                                                        *)
(***************************************************************************)
MaxTimerOps == 3

TimerWrites ==
    {<<DIV, 77>>, <<TIMA, 0>>, <<TIMA, 200>>, <<TMA, 33>>, <<TAC, 5>>, <<TAC, 9>>}

InitTimer ==
    /\ overflow_checks = FALSE
    /\ cpu \in {Place([IrqBase EXCEPT !.timer = tm, !.ie_reg = 4, !.ime = m]) :
                  tm \in TimerVals, m \in BOOLEAN}
    /\ ev = NoEvent
    /\ ticks = 0

TimerWrite ==
    /\ Live(cpu)
    /\ ticks < MaxTimerOps
    /\ \E w \in TimerWrites :
         /\ cpu' = Call("write_ram", <<cpu, w[1], w[2]>>)
         /\ ev' = [NoEvent EXCEPT !.kind = "write", !.addr = w[1], !.val = w[2],
                                  !.op_timer = cpu.timer]
    /\ ticks' = ticks + 1
    /\ UNCHANGED overflow_checks

TimerTick ==
    /\ Live(cpu)
    /\ ticks < MaxTimerOps
    /\ DoTick(<<0>>)

NextTimer == TimerWrite \/ TimerTick

SpecTimer == InitTimer /\ [][NextTimer]_vars

(***************************************************************************)
(* The claims.  PendingBits, Lowest, BitOf and Cleared say what the        *)
(* documentation says about IF and IE, in arithmetic.                      *)
(***************************************************************************)
BitOf(x, i) == (x \div (2 ^ i)) % 2 = 1

PendingBits(if_reg, ie_reg) == {i \in 0..4 : BitOf(if_reg, i) /\ BitOf(ie_reg, i)}

Lowest(set) == CHOOSE i \in set : \A j \in set : i <= j

Cleared(x, i) == IF BitOf(x, i) THEN x - 2 ^ i ELSE x

SourceNames == <<"Vblank", "Stat", "Timer", "Serial", "Joypad">>

IFOf(s) == MemGet(s.io_ram, 15)

\* a tick that returned took an interrupt at its check step
Taken(e) ==
    /\ e.kind = "tick"
    /\ e.returned
    /\ e.check_ime
    /\ PendingBits(e.check_if, e.check_ie) # {}

\* the PPU (i = 0 VBLANK, i = 1 STAT) or the timer (i = 2) flagged source i
Flagged(e, i) ==
    CASE i = 0 -> e.lcd_result = "RenderFrame"
      [] i = 1 -> e.ppu_irq
      [] OTHER -> e.timer_irq

\* C1: in a tick that returns, the PPU takes the cycles the opcode (or the
\* idle step) returned, then the timer takes the same cycles from where the
\* opcode left it, then interrupts are checked: a source the PPU or the timer
\* flagged in this tick, with IME on, its IE bit set and no lower bit of
\* IF & IE pending, has its vector in PC when the tick returns.
C1_TickOrder ==
    [][(ticks' = ticks + 1 /\ ev'.returned) =>
          /\ ev'.check_lcd = lcd_step(cpu.lcd, ev'.cycles).lcd
          /\ ev'.check_timer = timer_tick(ev'.op_timer, ev'.cycles).timer
          /\ \A i \in 0..2 :
                (/\ Flagged(ev', i)
                 /\ ev'.check_ime
                 /\ BitOf(ev'.check_ie, i)
                 /\ \A j \in 0..(i - 1) : j \notin PendingBits(ev'.check_if, ev'.check_ie))
                => /\ BitOf(ev'.check_if, i)
                   /\ cpu'.pc = 64 + 8 * i]_vars

C1_Witness ==
    /\ ev.kind = "tick" /\ ev.returned
    /\ ev.timer_irq /\ ev.check_ime /\ ev.irq = "Timer"
    /\ cpu.pc = 80

StackRam(a) == a \in 49152..65023 \/ a \in 65408..65535

C3_Priority ==
    ev.kind = "tick" =>
        LET set == PendingBits(ev.check_if, ev.check_ie)
        IN  IF ~ev.returned THEN TRUE
            ELSE IF ~(ev.check_ime \/ ev.check_halted) \/ set = {}
            THEN ev.irq = "None"
            ELSE /\ ev.irq = SourceNames[Lowest(set) + 1]
                 /\ ev.check_ime => cpu.pc = 64 + 8 * Lowest(set)

C3_Witness ==
    /\ ev.kind = "tick" /\ ev.returned
    /\ ev.check_if = 255 /\ ev.check_ie = 224 + 16 + 8
    /\ ev.irq = "Serial"
    /\ cpu.pc = 88

\* the registers C5 names
Regs(s) == <<s.pc, s.sp, s.a, s.f, s.b, s.c, s.d, s.e, s.h, s.l, s.irq_enabled>>

\* C4: when a tick that returns finds the CPU halted at its interrupt check
\* with some bit 0..4 of IF & IE set, the CPU is not halted when the tick
\* returns, IME on or off.  With IME off nothing is pushed (SP, work RAM and
\* high RAM keep their value), PC and IME keep their value, IF is what the
\* check read, PC is the address after the HALT that halted the CPU in this
\* tick (or, halted since an earlier tick, the PC it halted with), and the
\* next tick fetches its opcode there.
C4_HaltWake ==
    [][(ticks' = ticks + 1 /\ ev'.returned) =>
          /\ (ev'.check_halted /\ PendingBits(ev'.check_if, ev'.check_ie) # {}) =>
                /\ ~cpu'.halted
                /\ ~ev'.check_ime =>
                      /\ cpu'.pc = ev'.check_pc
                      /\ cpu'.pc = IF cpu.halted THEN cpu.pc ELSE (ev'.addr + 1) % 65536
                      /\ cpu'.sp = ev'.check_sp /\ cpu'.sp = cpu.sp
                      /\ cpu'.wram = cpu.wram /\ cpu'.hram = cpu.hram
                      /\ ~cpu'.irq_enabled
                      /\ IFOf(cpu') = ev'.check_if
          /\ ev'.after_wake => (ev'.addr = cpu.pc /\ ev'.val = bus_read_ram(cpu', cpu.pc))]_vars

C4_Witness ==
    /\ ev.kind = "tick" /\ ev.returned
    /\ ev.after_wake
    /\ ev.addr = 257 /\ ev.val = 197
    /\ ticks = 2

\* C5: a tick that starts halted, returns and finds no bit 0..4 of IF & IE
\* set at its interrupt check fetches nothing (the image is not read and PC
\* stays), steps the PPU and the timer by exactly 1 cycle, leaves PC, SP, A,
\* F, B, C, D, E, H, L and IME as they were and leaves the CPU halted; and a
\* tick that executes HALT ($76) with no such bit set leaves the CPU halted.
C5_HaltIdle ==
    [][(/\ ticks' = ticks + 1
        /\ ev'.returned
        /\ PendingBits(ev'.check_if, ev'.check_ie) = {}) =>
          /\ cpu.halted =>
                /\ ev'.cycles = 1
                /\ cpu'.rom = cpu.rom
                /\ cpu'.last_read # cpu.pc
                /\ ev'.check_lcd = lcd_step(cpu.lcd, 1).lcd
                /\ ev'.check_timer = timer_tick(cpu.timer, 1).timer
                /\ cpu'.lcd = ev'.check_lcd /\ cpu'.timer = ev'.check_timer
                /\ Regs(cpu') = Regs(cpu)
                /\ cpu'.halted
          /\ (~cpu.halted /\ ev'.val = 118) =>
                /\ cpu'.halted
                /\ cpu'.pc = (ev'.addr + 1) % 65536]_vars

C5_Witness ==
    /\ ev.kind = "tick" /\ ev.returned
    /\ ev.addr = -1 /\ ev.cycles = 1
    /\ cpu.halted
    /\ cpu.pc = 257
    /\ ticks = 2

SampleWords == {0, 15, 240, 255, 4660, 43981, 65520, 65535}

\* C7: the low nibble of F is 0 in every state the CPU reaches, on a running
\* machine set_r16(AF, v) reads back as v with its low nibble cleared, and a
\* POP AF that returns (with no interrupt taken in the same tick) leaves in
\* AF the two bytes that were on top of the stack with the low nibble cleared.
C7_FlagNibble ==
    /\ cpu.f % 16 = 0
    /\ Live(cpu) =>
          \A v \in SampleWords : get_r16(set_r16(cpu, "AF", v), "AF") = v - (v % 16)
    /\ (ev.kind = "tick" /\ ev.val = 241 /\ ev.returned /\ ev.irq = "None") =>
          LET low == bus_read_ram(cpu, ev.start_sp)
              high == bus_read_ram(cpu, (ev.start_sp + 1) % 65536)
          IN  /\ cpu.a = high
              /\ cpu.f = low - (low % 16)

C7_Witness ==
    /\ ev.kind = "tick" /\ ev.returned
    /\ ev.val = 241
    /\ cpu.a = 90 /\ cpu.f = 240
    /\ cpu.sp = 49410

\* C8 as stated: no 16-bit computation traps, a fetch at PC = $FFFF leaves
\* PC = $0000, a PUSH with SP < 2 leaves SP + 65534, a POP with SP = $FFFF
\* takes its high byte from $0000 and leaves SP = $0001, and LD (u16),SP
\* with the address $FFFF returns.
C8_Wraps ==
    ev.kind = "tick" =>
        /\ cpu.fatal # "overflow"
        /\ (ev.addr = 65535 /\ ev.val = 0) => cpu.pc = 0
        /\ (ev.val \in {197, 213, 229, 245} /\ ev.start_sp < 2) =>
              cpu.sp = ev.start_sp + 65534
        /\ (ev.val = 193 /\ ev.start_sp = 65535) =>
              /\ cpu.sp = 1
              /\ cpu.b = bus_read_ram(cpu, 0)
        /\ (ev.val = 8 /\ bus_read_ram(cpu, (ev.addr + 1) % 65536) = 255
                       /\ bus_read_ram(cpu, (ev.addr + 2) % 65536) = 255) =>
              ev.returned

\* C9 as stated: on a cartridge with RAM behind a RAM-enable latch (MBC1,
\* MBC2, MBC3 with a RAM bank selected, MBC5) a write to the latch or to
\* $A000 returns, and with the latch on ($0A written last to $0000-$1FFF) a
\* read of $A000 gives the last byte written there while the latch was on.
C9_RamLatch ==
    (cpu.mbc \in {"MBC1", "MBC2", "MBC3", "MBC5"} /\ cpu.ram_len > 0 /\ ev.plain) =>
        /\ (ev.kind = "write" /\ ev.addr \in {0, EXT_RAM_START}) => Live(cpu)
        /\ (ev.kind = "read" /\ ev.addr = EXT_RAM_START /\ ev.latch) => ev.val = ev.kept

\* C10 as stated: on MBC1 a write of v to $2000 selects, for reads of
\* $4000-$7FFF, bank v + 1 when v is $00, $20, $40 or $60 and bank v mod 32
\* otherwise.
C10_Mbc1Bank ==
    (cpu.mbc = "MBC1" /\ ev.plain /\ ev.kind = "write" /\ ev.addr = 8192) =>
        LET bank == IF ev.val \in {0, 32, 64, 96} THEN ev.val + 1 ELSE ev.val % 32
        IN  /\ cpu.rom_bank = bank
            /\ bus_read_ram(cpu, ROM_BANK_SIZE) = bank

\* the bytes of VRAM looked at around a tile write: the first two tiles, the
\* last byte of tile data, the first byte of the maps and the last of VRAM
VramProbe == (VRAM_START..(VRAM_START + 31)) \cup {TILE_SET_STOP, TILE_MAP_START, VRAM_STOP}

\* C11 as stated: a write of h to $FF46 returns, and after it a read of
\* $FE00 + i gives, for every i in 0..159, the byte a read of h * 256 + i gave
\* before it, and a read of $FF46 gives h.
C11_OamDma ==
    [][(Live(cpu) /\ ev'.kind = "write" /\ ev'.addr = OAM_DMA) =>
          /\ Live(cpu')
          /\ \A i \in 0..159 :
                bus_read_ram(cpu', OAM_START + i) = bus_read_ram(cpu, ev'.val * 256 + i)
          /\ bus_read_ram(cpu', OAM_DMA) = ev'.val]_vars

\* C12 as stated: after a write of v to an address of the tile data
\* ($8000-$97FF) a read of that address gives v, and a read of any other
\* address of VRAM gives what it gave before the write.
C12_TileRoundTrip ==
    [][(Live(cpu) /\ ev'.kind = "write" /\ ev'.addr \in VRAM_START..TILE_SET_STOP) =>
          /\ bus_read_ram(cpu', ev'.addr) = ev'.val
          /\ \A a \in VramProbe \ {ev'.addr} :
                bus_read_ram(cpu', a) = bus_read_ram(cpu, a)]_vars

\* C13 as stated: once a tick has returned true, the T-cycles of the ticks
\* since then stay below 70,224 + 456 until the next tick that returns true,
\* and the T-cycles between two consecutive ticks that return true are
\* within 456 of 70,224.
C13_FrameBudget ==
    (ev.kind = "tick" /\ ev.frames >= 1) =>
        /\ ev.since_frame < 70224 + 456
        /\ (ev.draw_time /\ ev.frames >= 2) =>
              (ev.frame_len > 70224 - 456 /\ ev.frame_len < 70224 + 456)

\* C14: is_battery_dirty() is false on a fresh machine; an operation that
\* returns leaves it true when it was a CPU write (by the host or by the
\* instruction of a tick) to $A000-$BFFF, false when it was clean_battery(),
\* and as it was in every other case: other writes, the OAM DMA trigger among
\* them, reads, ticks and set_battery_data.
C14_BatteryDirty ==
    /\ ev.kind = "init" => ~is_battery_dirty(cpu)
    /\ [][Live(cpu') =>
            is_battery_dirty(cpu') =
                CASE ev'.kind = "clean_battery" -> FALSE
                  [] ev'.kind = "write" /\ ev'.addr \in EXT_RAM_START..EXT_RAM_STOP -> TRUE
                  [] ev'.kind = "tick" /\ cpu'.last_write \in EXT_RAM_START..EXT_RAM_STOP -> TRUE
                  [] OTHER -> is_battery_dirty(cpu)]_vars

\* the flag went up at a write to $A000, stayed up over a tick and came down
\* at clean_battery()
C14_Witness ==
    /\ ticks = 3
    /\ ev.kind = "clean_battery"
    /\ ev.val = 1
    /\ ~is_battery_dirty(cpu)
    /\ cpu.last_write = -1

\* the cartridge types the mapper table of Cart::get_mbc names
SupportedTypes == {0} \cup (1..3) \cup (5..6) \cup (15..19) \cup (25..30)

\* C15 as stated: on a cartridge of a supported type every bus read and
\* every bus write returns, whatever the mapper registers hold; a read gives
\* a byte.
C15_BusTotal ==
    (RomByte(cpu, CART_TYPE_ADDR) \in SupportedTypes /\ ev.kind \in {"read", "write"}) =>
        /\ Live(cpu)
        /\ ev.kind = "read" => ev.val \in 0..255

\* C19 as stated: load_rom of an image whose type byte is not a supported
\* one does not return a machine that runs on.
C19_Unsupported ==
    (ev.kind = "init" /\ RomByte(cpu, CART_TYPE_ADDR) \notin SupportedTypes) => ~Live(cpu)

\* the eleven opcodes whose entry of OPCODES is `invalid`
InvalidOpcodes == {211, 219, 221, 227, 228, 235, 236, 237, 244, 252, 253}

\* C16 as stated: a tick is fatal exactly when the opcode it fetched is one
\* of the eleven invalid ones, and a tick that returns cost at least one
\* M-cycle.
C16_Stated ==
    ev.kind = "tick" =>
        /\ ~ev.returned <=> ev.val \in InvalidOpcodes
        /\ ev.returned => ev.cycles >= 1

\* C16: a tick that fetched one of the eleven invalid opcodes does not
\* return; the invalid-opcode error is raised for no other opcode, primary
\* or CB-prefixed; and every tick that returns cost at least one M-cycle.
C16_InvalidOpcode ==
    ev.kind = "tick" =>
        /\ ev.val \in InvalidOpcodes => ~ev.returned
        /\ cpu.fatal = "invalid opcode" => ev.val \in InvalidOpcodes
        /\ ev.returned => ev.cycles >= 1

C16_Witness ==
    /\ ev.kind = "tick"
    /\ ev.val = 211
    /\ ~ev.returned
    /\ cpu.fatal = "invalid opcode"

\* the opcodes that pop: POP rr, RET, RETI, and RET cc when its condition holds
PopAlways == {193, 209, 225, 241, 201, 217}

RetCond == {192, 200, 208, 216}

\* C17 as stated: a pop at SP = $FFFE is fatal and leaves SP and the
\* registers A..L as they were; a RET cc whose condition is false returns at
\* SP = $FFFE; a pop at any other SP returns, with SP two higher (mod 65536).
C17_EmptyStackPop ==
    [][(ev'.kind = "tick" /\ ev'.val \in PopAlways \cup RetCond /\ ev'.addr < 65535) =>
          LET popped == \/ ev'.val \in PopAlways
                        \/ condition(cpu, (ev'.val - 192) \div 8)
          IN  /\ (popped /\ cpu.sp = 65534) =>
                    /\ ~Live(cpu')
                    /\ cpu'.sp = 65534
                    /\ <<cpu'.a, cpu'.f, cpu'.b, cpu'.c, cpu'.d, cpu'.e, cpu'.h, cpu'.l>>
                         = <<cpu.a, cpu.f, cpu.b, cpu.c, cpu.d, cpu.e, cpu.h, cpu.l>>
              /\ (~popped /\ cpu.sp = 65534) => (Live(cpu') /\ cpu'.sp = 65534)
              /\ (popped /\ cpu.sp # 65534) =>
                    (Live(cpu') /\ cpu'.sp = (cpu.sp + 2) % 65536)]_vars

\* C18 as stated: set_battery_data(bytes) returns; when the length of bytes
\* is not the size of the external RAM the RAM keeps its contents, and when
\* it is, get_battery_data() gives exactly bytes afterwards.
C18_BatteryData ==
    [][(Live(cpu) /\ ev'.kind = "set_battery") =>
          /\ Live(cpu')
          /\ get_battery_data(cpu') =
                IF ev'.data.len # cpu.ram_len THEN get_battery_data(cpu) ELSE ev'.data]_vars

\* the machine booted from the all-zero image of 32 KiB
IsZeroRom == cpu.rom_known /\ DOMAIN cpu.rom = {}

\* C20 as stated, the part on fatal errors: the machine booted from the
\* all-zero image is still running at every tick up to the one that signals
\* its 60th frame.
C20_ZeroRomFrames ==
    (IsZeroRom /\ ev.frames < 60) => Live(cpu)

\* the i-th button of each bank, as the documentation lists them
DpadOrder == <<4, 5, 6, 7>>

FaceOrder == <<0, 1, 2, 3>>

\* what the documentation says a read of $FF00 gives, from the last byte
\* written there and the buttons held
JoypadByte(joy, held) ==
    LET face == joy # -1 /\ ~BitOf(joy, 5)
        dpad == joy # -1 /\ ~BitOf(joy, 4)
        bank == IF dpad THEN DpadOrder ELSE FaceOrder
        b(i) == IF held[bank[i + 1]] THEN 0 ELSE 2 ^ i
    IN  IF face = dpad THEN 0 ELSE b(0) + b(1) + b(2) + b(3)

\* C21: a read of $FF00 gives 0 on a fresh machine and when the two
\* selectors last written (bit 5 face, bit 4 dpad, active low) are both
\* active or both inactive, and otherwise the four bits of the selected
\* bank, bit i being 0 iff its i-th button is held, with bits 4..7 zero.
C21_JoypadRead ==
    Live(cpu) =>
        /\ bus_read_ram(cpu, IO_START) = JoypadByte(ev.joy, cpu.buttons)
        /\ bus_read_ram(cpu, IO_START) \in 0..15

\* the dpad is selected, Left is held and a read gives %1101
C21_Witness ==
    /\ ev.joy = 239
    /\ cpu.buttons[5]
    /\ bus_read_ram(cpu, IO_START) = 13

\* C22: after press_button(b, true) IF bit 4 is set; and when the CPU was
\* halted with IE bit 4 set, the next tick leaves it not halted and, with
\* IME on and no lower bit of IF & IE pending at the interrupt check, at
\* PC = $0060 with IF bit 4 cleared.
C22_JoypadIrq ==
    /\ []((ev.kind = "press" /\ ev.val = 1) => BitOf(bus_read_ram(cpu, IF_REG), 4))
    /\ [][(ev.kind = "press" /\ ev.val = 1 /\ cpu.halted /\ ev'.kind = "tick"
           /\ BitOf(bus_read_ram(cpu, IE_REG), 4)) =>
             /\ ~cpu'.halted
             /\ (cpu.irq_enabled /\ PendingBits(ev'.check_if, ev'.check_ie) \cap (0..3) = {}) =>
                   (cpu'.pc = 96 /\ ~BitOf(bus_read_ram(cpu', IF_REG), 4))]_vars

\* a CPU with IME on, halted when the tick began (it fetched nothing), was
\* woken by a press and is at the joypad vector
C22_Witness ==
    /\ ev.kind = "tick"
    /\ ev.val = -1
    /\ ev.irq = "Joypad"
    /\ ev.check_halted
    /\ ev.check_ime
    /\ cpu.pc = 96
    /\ ~cpu.halted

\* the mode changes the documentation allows
ModeEdges ==
    {<<"OAMReadMode", "VRAMReadMode">>, <<"VRAMReadMode", "HBLANK">>,
     <<"HBLANK", "OAMReadMode">>, <<"HBLANK", "VBLANK">>, <<"VBLANK", "OAMReadMode">>}

\* the cycles the documentation gives each mode (VBLANK: each of its lines)
ModeLen(mode) ==
    CASE mode = "OAMReadMode" -> 80
      [] mode = "VRAMReadMode" -> 172
      [] mode = "HBLANK" -> 204
      [] OTHER -> 456

\* C23: the mode changes only along OAMRead -> VRAMRead -> HBLANK ->
\* (OAMRead or VBLANK) and VBLANK -> OAMRead; a mode (a line, in VBLANK) that
\* ends has lasted 80, 172, 204 or 456 cycles, whatever the cycles of each
\* tick; RenderLine is returned at the VRAMRead -> HBLANK changes and only there.
C23_ModeCycle ==
    [][(ev'.kind = "tick" /\ ev'.returned) =>
          /\ cpu'.lcd.mode # cpu.lcd.mode =>
                <<cpu.lcd.mode, cpu'.lcd.mode>> \in ModeEdges
          /\ (cpu'.lcd.mode # cpu.lcd.mode \/ cpu'.lcd.line # cpu.lcd.line) =>
                cpu.lcd.cycles + ev'.cycles = ModeLen(cpu.lcd.mode)
          /\ ev'.lcd_result = "RenderLine" <=>
                (cpu.lcd.mode = "VRAMReadMode" /\ cpu'.lcd.mode = "HBLANK")]_vars

\* C24: LY goes 0, 1, ..., 153 and back to 0; lines 0..143 are visible and
\* lines 144..153 are VBLANK, so the mode is VBLANK iff LY >= 144; each visible
\* line is rendered (none above 143 is); the frame-complete signal comes when
\* the HBLANK of line 143 ends, which leaves LY = 144.
C24_FrameLines ==
    /\ [](/\ read_lcd_reg(cpu, LY) \in 0..153
          /\ cpu.lcd.mode = "VBLANK" <=> read_lcd_reg(cpu, LY) >= 144
          /\ (ev.kind = "tick" /\ ev.lcd_result = "RenderFrame") => read_lcd_reg(cpu, LY) = 144
          /\ (ev.kind = "tick" /\ ev.lcd_result = "RenderLine") => read_lcd_reg(cpu, LY) \in 0..143)
    /\ [][read_lcd_reg(cpu', LY) \in
            {read_lcd_reg(cpu, LY), (read_lcd_reg(cpu, LY) + 1) % 154}]_vars

\* C25: after every tick the low two bits of STAT are the index of the PPU
\* mode, whatever the program or the interrupt dispatch of that tick stored
\* at $FF41; and the mode after a tick is the one Lcd::step gives from the
\* mode before and the cycles of the tick, whatever was written to STAT.
C25_StatMode ==
    /\ []((ev.kind = "tick" /\ ev.returned) =>
             read_lcd_reg(cpu, STAT) % 4 = get_idx(cpu.lcd.mode))
    /\ [][(ev'.kind = "tick" /\ ev'.returned) =>
             cpu'.lcd = lcd_step(cpu.lcd, ev'.cycles).lcd]_vars

\* C26: after the PPU update of every tick, STAT bit 2 is set iff LY = LYC.
C26_LyEqLyc ==
    (ev.kind = "tick" /\ ev.returned) =>
        (BitOf(read_lcd_reg(cpu, STAT), 2) <=> read_lcd_reg(cpu, LY) = read_lcd_reg(cpu, LYC))

\* C27: while LCDC bit 7 is 0, after every tick LY reads 0 and the mode is
\* HBLANK with STAT low bits 0; the line does not advance and no tick
\* reports a complete frame.
C27_LcdDisabled ==
    (ev.kind = "tick" /\ ev.returned /\ ~BitOf(read_lcd_reg(cpu, LCDC), 7)) =>
        /\ read_lcd_reg(cpu, LY) = 0
        /\ cpu.lcd.mode = "HBLANK"
        /\ read_lcd_reg(cpu, STAT) % 4 = 0
        /\ ~ev.draw_time

\* the STAT sources of one PPU update, as the documentation lists them: the
\* LCD before and after the update, and STAT and LYC when it was made
StatSources(before, after, stat, lyc) ==
    \/ before.line # after.line /\ after.line = lyc /\ BitOf(stat, 6)
    \/ /\ before.mode # after.mode
       /\ \/ after.mode = "HBLANK" /\ BitOf(stat, 3)
          \/ after.mode = "VBLANK" /\ BitOf(stat, 4)
          \/ after.mode = "OAMReadMode" /\ BitOf(stat, 5)

\* C28: the PPU update of a tick asks for the STAT interrupt iff one of the
\* four sources holds in it (so never on entering VRAMRead and never without
\* a change of line or mode); when it does IF bit 1 is set at the interrupt
\* check, and when it does not the update leaves IF bit 1 as the instruction
\* left it.
C28_StatIrq ==
    [][(ev'.kind = "tick" /\ ev'.returned) =>
          /\ ev'.ppu_irq <=> StatSources(cpu.lcd, ev'.check_lcd, ev'.op_stat, ev'.op_lyc)
          /\ ev'.ppu_irq => BitOf(ev'.check_if, 1)
          /\ ~ev'.ppu_irq => (BitOf(ev'.check_if, 1) <=> BitOf(ev'.op_if, 1))]_vars

\* a tick moved LY onto LYC with STAT bit 6 set and IF bit 1 was raised by it
C28_Witness ==
    /\ ev.kind = "tick"
    /\ ev.ppu_irq
    /\ BitOf(ev.op_stat, 6)
    /\ ev.check_lcd.line = ev.op_lyc
    /\ ev.check_lcd.mode = "OAMReadMode"
    /\ ~BitOf(ev.op_if, 1)
    /\ BitOf(ev.check_if, 1)

\* the divider bit TAC selects fell from 1 to 0 between two timers
SelectedBitFell(before, after) ==
    /\ after.div # before.div
    /\ get_bit(before.div, get_tima_period_bit(before.tac))
    /\ ~get_bit(after.div, get_tima_period_bit(before.tac))

\* C29: outside an overflow delay the timer update of a tick adds exactly 1
\* to TIMA when the divider bit TAC selects fell while TAC bit 2 is set, and
\* leaves TIMA alone otherwise (so always while TAC bit 2 is clear).
C29_TimaStep ==
    [][(ev'.kind = "tick" /\ ev'.returned /\ ev'.op_timer.tima_cooldown = 0) =>
          ev'.check_timer.tima =
              IF BitOf(ev'.op_timer.tac, 2) /\ SelectedBitFell(ev'.op_timer, ev'.check_timer)
              THEN (ev'.op_timer.tima + 1) % 256
              ELSE ev'.op_timer.tima]_vars

\* C30: the timer update of a tick that begins inside the delay after an
\* overflow ends it (a tick is at least 4 T-cycles): TIMA is TMA and the
\* TIMER request is raised, IF bit 2 being set at the interrupt check; an
\* update that begins outside a delay raises no request, although TIMA may
\* overflow in it.
C30_TimaReload ==
    [][(ev'.kind = "tick" /\ ev'.returned) =>
          /\ ev'.op_timer.tima_cooldown # 0 =>
                /\ ev'.timer_irq
                /\ BitOf(ev'.check_if, 2)
                /\ ev'.check_timer.tima = ev'.op_timer.tma
                /\ ev'.check_timer.tima_cooldown = 0
          /\ ev'.op_timer.tima_cooldown = 0 => ~ev'.timer_irq]_vars

\* C31: a store to $FF04 makes DIV read 0; a store of v to $FF05 makes TIMA
\* read v and, made during an overflow delay, ends the delay, so that the
\* next tick raises no TIMER request and leaves TIMA at v (unless the
\* selected divider bit falls in it); a store to $FF06 or $FF07 reads back
\* and changes neither DIV nor TIMA.
C31_TimerWrites ==
    /\ [][(Live(cpu) /\ ev'.kind = "write") =>
             /\ Live(cpu')
             /\ ev'.addr = DIV => bus_read_ram(cpu', DIV) = 0
             /\ ev'.addr = TIMA =>
                   /\ bus_read_ram(cpu', TIMA) = ev'.val
                   /\ cpu'.timer.tima_cooldown = 0
             /\ ev'.addr \in {TMA, TAC} =>
                   /\ bus_read_ram(cpu', ev'.addr) = ev'.val
                   /\ bus_read_ram(cpu', DIV) = bus_read_ram(cpu, DIV)
                   /\ bus_read_ram(cpu', TIMA) = bus_read_ram(cpu, TIMA)]_vars
    /\ [][(/\ ev.kind = "write" /\ ev.addr = TIMA /\ ev.op_timer.tima_cooldown # 0
           /\ ev'.kind = "tick" /\ ev'.returned) =>
             /\ ~ev'.timer_irq
             /\ ~SelectedBitFell(ev'.op_timer, ev'.check_timer) =>
                   ev'.check_timer.tima = ev.val]_vars

\* a store of 200 to TIMA came during an overflow delay that was about to
\* load TMA = 128, and ended it
C31_Witness ==
    /\ ev.kind = "write"
    /\ ev.addr = TIMA
    /\ ev.val = 200
    /\ ev.op_timer.tima_cooldown = 1
    /\ ev.op_timer.tma = 128
    /\ cpu.timer.tima = 200
    /\ cpu.timer.tima_cooldown = 0

\* the additions and subtractions on A: ADD, ADC, SUB, SBC with a register
\* or (HL) ($80..$9F) and with an immediate byte ($C6, $CE, $D6, $DE)
AddOps == (128..135) \cup {198}

AdcOps == (136..143) \cup {206}

SubOps == (144..151) \cup {214}

SbcOps == (152..159) \cup {222}

\* the operand of such an instruction at `pc`, read from the machine `after`
\* it (the instruction changes A only, which was `a` before it)
AluOperand(after, op, pc, a) ==
    IF op >= 192 THEN bus_read_ram(after, pc + 1)
    ELSE IF op % 8 = 7 THEN a
    ELSE get_r8_val(after, get_cb_reg(op))

\* the flag register holding Z, N, H and C
FlagByte(z, n, h, c) ==
    (IF z THEN 128 ELSE 0) + (IF n THEN 64 ELSE 0) + (IF h THEN 32 ELSE 0)
    + (IF c THEN 16 ELSE 0)

\* C32: ADC leaves A = (A+v+c) mod 256 with Z iff that is 0, N = 0,
\* H iff (A&15)+(v&15)+c > 15 and C iff A+v+c > 255; SBC leaves
\* A = (A-v-c) mod 256 with Z iff that is 0, N = 1, H iff (A&15) < (v&15)+c
\* and C iff A < v+c; c is the carry flag for every ADC and SBC opcode and 0
\* for ADD and SUB.
C32_AdcSbc ==
    [][(ev'.kind = "tick" /\ ev'.returned
        /\ ev'.val \in AddOps \cup AdcOps \cup SubOps \cup SbcOps) =>
          LET op == ev'.val
              a == cpu.a
              v == AluOperand(cpu', op, ev'.addr, a)
              c == IF op \in AdcOps \cup SbcOps /\ get_flag(cpu, "C") THEN 1 ELSE 0
          IN  IF op \in AddOps \cup AdcOps
              THEN /\ cpu'.a = (a + v + c) % 256
                   /\ cpu'.f = FlagByte((a + v + c) % 256 = 0, FALSE,
                                        (a % 16) + (v % 16) + c > 15, a + v + c > 255)
              ELSE /\ cpu'.a = (a - v - c + 512) % 256
                   /\ cpu'.f = FlagByte((a - v - c + 512) % 256 = 0, TRUE,
                                        (a % 16) < (v % 16) + c, a < v + c)]_vars

\* ADC A,$FF with A = $00 and the carry set gave $00 with Z, H and C
C32_Witness ==
    /\ ev.kind = "tick"
    /\ ev.val = 206
    /\ bus_read_ram(cpu, ev.addr + 1) = 255
    /\ ev.start_a = 0
    /\ ev.start_c
    /\ cpu.a = 0
    /\ cpu.f = 176

\* a packed BCD byte, the number it stands for, and the byte of a number
IsBcd(x) == x % 16 <= 9 /\ x \div 16 <= 9

BcdValue(x) == (x \div 16) * 10 + (x % 16)

BcdByte(n) == (n \div 10) * 16 + (n % 10)

\* C33: DAA leaves H = 0, Z iff A = 0 and N as it was; after ADD/ADC A,b on
\* packed BCD bytes a and b with carry-in c it leaves A = the BCD of
\* (a+b+c) mod 100 and C iff a+b+c >= 100, and after SUB/SBC the BCD of
\* (a-b-c) mod 100 and C iff a < b+c.
C33_Daa ==
    [][(ev'.kind = "tick" /\ ev'.returned /\ ev'.val = 39) =>
          /\ ~get_flag(cpu', "H")
          /\ get_flag(cpu', "Z") <=> cpu'.a = 0
          /\ get_flag(cpu', "N") <=> get_flag(cpu, "N")
          /\ (ev.kind = "tick" /\ ev.val \in AddOps \cup AdcOps \cup SubOps \cup SbcOps) =>
                LET op == ev.val
                    b == AluOperand(cpu, op, ev.addr, ev.start_a)
                    a == BcdValue(ev.start_a)
                    c == IF op \in AdcOps \cup SbcOps /\ ev.start_c THEN 1 ELSE 0
                    n == IF op \in AddOps \cup AdcOps
                         THEN a + BcdValue(b) + c
                         ELSE a - BcdValue(b) - c
                IN  (IsBcd(ev.start_a) /\ IsBcd(b)) =>
                        /\ cpu'.a = BcdByte((n + 100) % 100)
                        /\ get_flag(cpu', "C") <=> (n >= 100 \/ n < 0)]_vars

\* DAA turned $9A, the sum of two BCD bytes without a half carry, into $00
\* with Z and C
C33_Witness ==
    /\ ev.kind = "tick"
    /\ ev.val = 39
    /\ ev.start_a = 154
    /\ ~ev.start_c
    /\ cpu.a = 0
    /\ cpu.f = 144

\* the ROM bank the documentation gives MBC1 in ROM mode: (u << 5) | l from
\* the last bytes written to $4000-$5FFF and to $2000-$3FFF (bank 1 and
\* u = 0 before any write; a low part of 0 selects 1)
Mbc1Bank(w45, w23) ==
    LET u == IF w45 = -1 THEN 0 ELSE w45 % 4
        l == IF w23 = -1 \/ w23 % 32 = 0 THEN 1 ELSE w23 % 32
    IN  u * 32 + l

\* C34: on MBC1 in ROM mode the ROM bank is (u << 5) | l whichever of the
\* two registers was written last; in RAM mode a write to $4000-$5FFF sets
\* the RAM bank to its low two bits and leaves the ROM bank.
C34_Mbc1Bank ==
    /\ []((cpu.mbc = "MBC1" /\ Live(cpu) /\ cpu.rom_mode) =>
             cpu.rom_bank = Mbc1Bank(ev.w45, ev.w23))
    /\ [][(/\ cpu.mbc = "MBC1" /\ Live(cpu) /\ ~cpu.rom_mode
           /\ ev'.kind = "write" /\ ev'.addr \in 16384..24575) =>
             /\ cpu'.ram_bank = ev'.val % 4
             /\ cpu'.rom_bank = cpu.rom_bank]_vars

\* C35: on MBC5 the ROM bank is a 9-bit value with the byte last written to
\* $2000-$2FFF as its low 8 bits (bank 0 included) and its ninth bit from
\* the last write to $3000-$3FFF; the RAM bank is the low 4 bits of the byte
\* last written to $4000-$5FFF; a write to $6000-$7FFF returns and changes
\* nothing of the mapper.
C35_Mbc5Bank ==
    /\ []((cpu.mbc = "MBC5" /\ Live(cpu)) =>
             /\ cpu.rom_bank \in 0..511
             /\ cpu.rom_bank % 256 = (IF ev.w2 = -1 THEN 1 ELSE ev.w2)
             /\ cpu.rom_bank \div 256 = (IF ev.w3 \in {-1, 0} THEN 0 ELSE 1)
             /\ cpu.ram_bank = (IF ev.w45 = -1 THEN 0 ELSE ev.w45 % 16))
    /\ [][(/\ cpu.mbc = "MBC5" /\ Live(cpu)
           /\ ev'.kind = "write" /\ ev'.addr \in 24576..32767) =>
             /\ Live(cpu')
             /\ cpu'.rom_bank = cpu.rom_bank
             /\ cpu'.ram_bank = cpu.ram_bank
             /\ cpu'.ram_enabled = cpu.ram_enabled]_vars

\* C36: on MBC3, while the byte last written to $4000-$5FFF is in $08..$0C,
\* a read of $A000-$BFFF returns and gives the selected RTC register, and a
\* write there with the RAM/RTC latch on returns and is read back from that
\* register (seconds, minutes, hours and day-low whole; day-high in its bits
\* 0, 6 and 7), leaving external RAM alone.
C36_RtcSelect ==
    [][(cpu.mbc = "MBC3" /\ Live(cpu) /\ ev.w45 \in 8..12
        /\ ev'.addr \in EXT_RAM_START..EXT_RAM_STOP) =>
          /\ ev'.kind = "read" =>
                /\ Live(cpu')
                /\ ev'.val = rtc_read_byte(cpu, ev.w45)
          /\ (ev'.kind = "write" /\ cpu.ram_enabled) =>
                /\ Live(cpu')
                /\ cpu'.ram = cpu.ram
                /\ rtc_read_byte(cpu', ev.w45) =
                      IF ev.w45 = 12 THEN BitAnd(ev'.val, 193) ELSE ev'.val]_vars

\* the 8-pixel-wide box of OAM entry k, of the height LCDC selects, covers
\* pixel px of `line`
Covers(s, k, line, px) ==
    /\ line - get_coords(s, k)[2] \in 0..(sprite_height(s) - 1)
    /\ px - get_coords(s, k)[1] \in 0..7

\* entry k has a non-transparent pixel at px of `line`
Shows(s, k, line, px) ==
    Covers(s, k, line, px) /\ sprite_cell(s, k, line, px - get_coords(s, k)[1]) # 0

\* the colour of that pixel, through the palette the entry selects
SpriteColour(s, k, line, px) ==
    GB_PALETTE[get_sprite_palette(s, sprite_flag(s, k, PALETTE_BIT))
                 [sprite_cell(s, k, line, px - get_coords(s, k)[1])] + 1]

\* entry i has priority over entry j: the smaller x or, with equal x, the
\* lower OAM index
Before(s, i, j) ==
    \/ get_coords(s, i)[1] < get_coords(s, j)[1]
    \/ get_coords(s, i)[1] = get_coords(s, j)[1] /\ i < j

Showing(s, line, px) == {k \in 0..(NUM_OAM_SPRITES - 1) : Shows(s, k, line, px)}

\* C37: on a rendered line, at every pixel where two or more sprites have a
\* non-transparent pixel and none of them is behind the background, the
\* pixel of the row is that of the sprite with the smallest x and, among
\* sprites of equal x, of the one with the lowest OAM index -- for every pair
\* of the 40 OAM entries, the sprite of the pair that is shown is never the
\* one with the larger x (or the higher index at equal x).
C37_SpritePriority ==
    [][(ev'.kind = "tick" /\ ev'.row # <<>>) =>
          \A px \in 0..(SCREEN_WIDTH - 1) :
             LET line == ev'.rendered
                 shown == Showing(cpu', line, px)
             IN  (/\ Cardinality(shown) >= 2
                  /\ \A k \in shown : ~sprite_flag(cpu', k, BG_PRIORITY_BIT)) =>
                    \A i \in shown :
                       (\A j \in shown \ {i} : Before(cpu', i, j)) =>
                          ev'.row[px] = SpriteColour(cpu', i, line, px)]_vars

\* a line was rendered on which entries 0 and 39, at the same x, show
\* different colours at a pixel that has the colour of entry 0, and entries
\* 1 and 0, entry 1 at the smaller x, show different colours at a pixel that
\* has the colour of entry 1
C37_Witness ==
    /\ ev.kind = "tick" /\ ev.row # <<>>
    /\ \E px \in 0..(SCREEN_WIDTH - 1) :
          /\ Showing(cpu, ev.rendered, px) = {0, 39}
          /\ get_coords(cpu, 0)[1] = get_coords(cpu, 39)[1]
          /\ ~sprite_flag(cpu, 0, BG_PRIORITY_BIT)
          /\ SpriteColour(cpu, 0, ev.rendered, px) # SpriteColour(cpu, 39, ev.rendered, px)
          /\ ev.row[px] = SpriteColour(cpu, 0, ev.rendered, px)
    /\ \E px \in 0..(SCREEN_WIDTH - 1) :
          /\ Showing(cpu, ev.rendered, px) = {0, 1}
          /\ get_coords(cpu, 1)[1] < get_coords(cpu, 0)[1]
          /\ ~sprite_flag(cpu, 0, BG_PRIORITY_BIT) /\ ~sprite_flag(cpu, 1, BG_PRIORITY_BIT)
          /\ SpriteColour(cpu, 0, ev.rendered, px) # SpriteColour(cpu, 1, ev.rendered, px)
          /\ ev.row[px] = SpriteColour(cpu, 1, ev.rendered, px)

\* the tile and the row of it that sprite line y of entry k shows: in 8x16
\* mode row r mod 8 of tile (index & $FE) when r < 8 and of tile
\* (index | $01) when r >= 8, with r = y, or 15 - y under vertical flip; in
\* 8x8 mode the tile of the entry with r = y, or 7 - y
SpriteRow(s, k, y) ==
    LET tall == get_bit(read_lcd_reg(s, LCDC), 2)
        flip == BitOf(MemGet(s.oam, 4 * k + 3), 6)
        index == MemGet(s.oam, 4 * k + 2)
        r == IF flip THEN (IF tall THEN 15 ELSE 7) - y ELSE y
    IN  [tile |-> IF ~tall THEN index
                  ELSE IF r < 8 THEN BitAnd(index, 254) ELSE BitOr(index, 1),
         row |-> r % 8]

\* C38: on a rendered line, a sprite that is alone on its pixels and not
\* behind the background shows there the row SpriteRow names: each of its
\* non-transparent cells, at the column the horizontal flip selects, in the
\* colour of its palette.
C38_TallSprites ==
    [][(ev'.kind = "tick" /\ ev'.row # <<>>) =>
          \A k \in 0..(NUM_OAM_SPRITES - 1) : \A px \in 0..(SCREEN_WIDTH - 1) :
             LET line == ev'.rendered
                 at == SpriteRow(cpu', k, line - get_coords(cpu', k)[2])
                 x == px - get_coords(cpu', k)[1]
                 col == IF sprite_flag(cpu', k, X_FLIP_BIT) THEN 7 - x ELSE x
                 cell == tile_cell(cpu', at.tile, at.row, col)
                 palette == get_sprite_palette(cpu', sprite_flag(cpu', k, PALETTE_BIT))
             IN  (/\ Covers(cpu', k, line, px)
                  /\ \A m \in 0..(NUM_OAM_SPRITES - 1) \ {k} : ~Covers(cpu', m, line, px)
                  /\ ~sprite_flag(cpu', k, BG_PRIORITY_BIT)
                  /\ cell # 0) =>
                    ev'.row[px] = GB_PALETTE[palette[cell] + 1]]_vars

\* C39: whenever a tick calls render_scanline (the LCD reported RenderLine or
\* RenderFrame), the value of LY it uses as the row of the frame buffer is
\* below 144 and the call returns, whatever the program wrote to $FF44.
C39_LyInRange ==
    [][(Live(cpu) /\ ev'.kind = "tick"
        /\ ev'.lcd_result \in {"RenderLine", "RenderFrame"}) =>
          /\ Live(cpu')
          /\ ev'.rendered \in 0..(SCREEN_HEIGHT - 1)]_vars

\* the cycles of the LCD from one frame to the next (154 lines of 456), an
\* upper bound on the ticks between two frames as a tick feeds the LCD at
\* least one cycle
FrameTicks == 154 * 456

\* C40: under a host that keeps calling tick, every tick that returns feeds
\* at least one cycle to the PPU, and every state that has FrameTicks calls
\* of tick still ahead is followed by a tick that returns true, unless the
\* machine hits a fatal error: with IME set or clear, halted or not, LCD on
\* or off.
C40_FramesRecur ==
    /\ [][(ev'.kind = "tick" /\ ev'.returned) => ev'.cycles >= 1]_vars
    /\ (ticks + FrameTicks <= MaxLiveTicks) ~> (ev.draw_time \/ ~Live(cpu))

\* a tick returned true for the second time, on a halted machine or with the
\* LCD off
C40_Witness ==
    /\ ev.kind = "tick" /\ ev.draw_time /\ Live(cpu) /\ ev.frames = 2
    /\ ev.val = -1 \/ ~get_bit(read_lcd_reg(cpu, LCDC), 7)
    /\ \/ ev.val = -1
       \/ ~get_bit(read_lcd_reg(cpu, LCDC), 7)

====
